---------------------------- MODULE Spec2Model ----------------------------
(***************************************************************************)
(* A model of the cross-thread data handoff of the realtime visualization  *)
(* module: SwappableBuffer (Buffers/SwappableBuffer.h), DataCollector      *)
(* (RealtimeDataTransfer/DataCollector.h) and the two collectors built on  *)
(* it (OscilloscopeDataCollector, SpectralDataCollector).                  *)
(*                                                                         *)
(* In the concurrent parts threads interleave at the granularity of the     *)
(* statements of the source: every lock operation, every assignment to a   *)
(* shared field and every per-channel copy is one step. The part on the    *)
(* collectors call by call takes every member function call as one step    *)
(* and models the contents of the memory blocks.                           *)
(***************************************************************************)
EXTENDS Integers, Sequences, FiniteSets, TLC

---------------------------------------------------------------------------
(* Bounds of the model *)

\* number of writeNewBuffer / appendToWriteBuffer calls that take the write lock
MaxWrites == 3
\* the same, in the specification with two producers and two consumers
MaxWrites2 == 2
\* number of registerVisualizationTarget calls
MaxTargets == 3

---------------------------------------------------------------------------
(* SwappableBuffer<T> *)

\* SwappableBuffer::size, the constructor's bufferSize
Size == 2
\* SwappableBuffer::numChannels, the constructor's initialNumChannels
NumCh == 2

NoThread == "none"
Producers == {"p1", "p2"}
Consumers == {"c1", "c2"}
SBThreads == Producers \cup Consumers

\* contents of a HeapBlock allocated without initializeWithZeros
Uninit == -1

VARIABLES
    buffers,                      \* buffers[r][ch][j]: region r, channel ch, element j
    writeChannels,                \* the region writeChannels points to
    readChannels,                 \* the region readChannels points to
    writeBufferRemainingCapacity,
    readerShouldSwapPtrs,
    readBufferLock,               \* owner of the mutex, or NoThread
    writeBuferLock,               \* owner of the mutex, or NoThread
    sbT,                          \* per thread: position and locals of the running call
    sbG,                          \* history of the calls (not program state)
    sbEv                          \* the step taken last (not program state)

sbVars == <<buffers, writeChannels, readChannels, writeBufferRemainingCapacity,
            readerShouldSwapPtrs, readBufferLock, writeBuferLock, sbT, sbG, sbEv>>

Channels == 0 .. (NumCh - 1)
Regions == {0, 1}

IdleThread == [pc |-> "idle", id |-> 0, n |-> 0, i |-> 0, wp |-> 0, startIdx |-> 0,
               fresh |-> TRUE]

\* reallocateChannels as called by the constructor
SBInit ==
    /\ buffers = [r \in Regions |-> [ch \in Channels |-> [j \in 1 .. Size |-> Uninit]]]
    /\ writeChannels = 0
    /\ readChannels = 1
    /\ writeBufferRemainingCapacity = Size
    /\ readerShouldSwapPtrs = FALSE
    /\ readBufferLock = NoThread
    /\ writeBuferLock = NoThread
    /\ sbT = [t \in SBThreads |-> IdleThread]
    /\ sbG = [len |-> << >>, done |-> 0, holdDone |-> 0, mustSee |-> 0, sinceGet |-> 0,
              quiet |-> FALSE, prev |-> -1,
              full |-> -1, wroteFull |-> FALSE, swapped |-> FALSE, ret |-> FALSE]
    /\ sbEv = <<"init", NoThread>>

\* a try_lock that succeeds on a locked mutex (fault injected to test C7)
TryLockMutant(lock) == TRUE
\* std::mutex::try_lock
TryLock(lock) == lock = NoThread

\* swapPtrs: std::swap (writeChannels, readChannels)
SwapPtrs ==
    /\ writeChannels' = readChannels
    /\ readChannels' = writeChannels

Max(a, b) == IF a > b THEN a ELSE b
Min(a, b) == IF a < b THEN a ELSE b

\* a handle is held by consumer c from getReadBuffer until its destructor starts
Holding(c) == sbT[c].pc = "holding"


SetT(t, r) == sbT' = [sbT EXCEPT ![t] = r]

\* the regions a copy statement of the running call may address: (*writeChannels)[i]
\* is read without the read lock while the reader may swap the pointers, so the
\* statement uses the pointer as it is now or as it was loaded when the call began
CopyTargets(t) == {writeChannels, sbT[t].wp}

---------------------------------------------------------------------------
(* SwappableBuffer::writeNewBuffer, statement by statement *)

\* if (writeBuferLock.try_lock()); numElementsToWrite is the call's input
W_TryLock(t, max) ==
    /\ sbT[t].pc = "idle"
    /\ Len(sbG.len) < max
    /\ \E n \in 1 .. Size :
        IF TryLock(writeBuferLock)
        THEN /\ writeBuferLock' = t
             /\ SetT(t, [IdleThread EXCEPT !.pc = "w_clear", !.id = Len(sbG.len) + 1, !.n = n])
             /\ sbG' = [sbG EXCEPT !.len = Append(@, n), !.quiet = FALSE]
             /\ sbEv' = <<"step", NoThread>>
        ELSE /\ sbEv' = <<"dropped", t>>
             /\ UNCHANGED <<writeBuferLock, sbT, sbG>>
    /\ UNCHANGED <<buffers, writeChannels, readChannels, writeBufferRemainingCapacity,
                   readerShouldSwapPtrs, readBufferLock>>

\* readerShouldSwapPtrs = false
W_ClearFlag(t) ==
    /\ sbT[t].pc = "w_clear"
    /\ readerShouldSwapPtrs' = FALSE
    /\ SetT(t, [sbT[t] EXCEPT !.pc = "w_memcpy", !.i = 0, !.wp = writeChannels])
    /\ sbEv' = <<"step", NoThread>>
    /\ UNCHANGED <<buffers, writeChannels, readChannels, writeBufferRemainingCapacity,
                   readBufferLock, writeBuferLock, sbG>>

\* std::memcpy ((*writeChannels)[i], dataToWrite[i], numElementsToWrite * sizeof (T))
W_Memcpy(t) ==
    /\ sbT[t].pc = "w_memcpy"
    /\ \E tgt \in CopyTargets(t) :
        buffers' = [buffers EXCEPT ![tgt][sbT[t].i] =
                       [j \in 1 .. Size |-> IF j <= sbT[t].n THEN sbT[t].id ELSE @[j]]]
    /\ SetT(t, [sbT[t] EXCEPT !.pc = "w_fill"])
    /\ sbEv' = <<"step", NoThread>>
    /\ UNCHANGED <<writeChannels, readChannels, writeBufferRemainingCapacity,
                   readerShouldSwapPtrs, readBufferLock, writeBuferLock, sbG>>

\* std::fill ((*writeChannels)[i] + numElementsToWrite, (*writeChannels)[i] + size, T(0))
W_Fill(t) ==
    /\ sbT[t].pc = "w_fill"
    /\ \E tgt \in CopyTargets(t) :
        buffers' = [buffers EXCEPT ![tgt][sbT[t].i] =
                       [j \in 1 .. Size |-> IF j > sbT[t].n THEN 0 ELSE @[j]]]
    /\ SetT(t, [sbT[t] EXCEPT !.i = @ + 1,
                              !.pc = IF sbT[t].i + 1 < NumCh THEN "w_memcpy" ELSE "w_tryread"])
    /\ sbEv' = <<"step", NoThread>>
    /\ UNCHANGED <<writeChannels, readChannels, writeBufferRemainingCapacity,
                   readerShouldSwapPtrs, readBufferLock, writeBuferLock, sbG>>

\* if (readBufferLock.try_lock ())
W_TryRead(t) ==
    /\ sbT[t].pc = "w_tryread"
    /\ IF TryLock(readBufferLock)
       THEN /\ readBufferLock' = t
            /\ SetT(t, [sbT[t] EXCEPT !.pc = "w_swap"])
       ELSE /\ SetT(t, [sbT[t] EXCEPT !.pc = "w_setflag"])
            /\ UNCHANGED readBufferLock
    /\ sbEv' = <<"step", NoThread>>
    /\ UNCHANGED <<buffers, writeChannels, readChannels, writeBufferRemainingCapacity,
                   readerShouldSwapPtrs, writeBuferLock, sbG>>

\* swapPtrs ()
W_Swap(t) ==
    /\ sbT[t].pc = "w_swap"
    /\ SwapPtrs
    /\ SetT(t, [sbT[t] EXCEPT !.pc = "w_unlockread"])
    /\ sbG' = [sbG EXCEPT !.full = IF @ = writeChannels THEN -1 ELSE @]
    /\ sbEv' = <<"step", NoThread>>
    /\ UNCHANGED <<buffers, writeBufferRemainingCapacity, readerShouldSwapPtrs,
                   readBufferLock, writeBuferLock>>

\* readBufferLock.unlock ()
W_UnlockRead(t) ==
    /\ sbT[t].pc = "w_unlockread"
    /\ readBufferLock' = NoThread
    /\ SetT(t, [sbT[t] EXCEPT !.pc = "w_cap"])
    /\ sbEv' = <<"step", NoThread>>
    /\ UNCHANGED <<buffers, writeChannels, readChannels, writeBufferRemainingCapacity,
                   readerShouldSwapPtrs, writeBuferLock, sbG>>

\* else readerShouldSwapPtrs = true
W_SetFlag(t) ==
    /\ sbT[t].pc = "w_setflag"
    /\ readerShouldSwapPtrs' = TRUE
    /\ SetT(t, [sbT[t] EXCEPT !.pc = "w_cap"])
    /\ sbEv' = <<"step", NoThread>>
    /\ UNCHANGED <<buffers, writeChannels, readChannels, writeBufferRemainingCapacity,
                   readBufferLock, writeBuferLock, sbG>>

\* writeBufferRemainingCapacity = size
W_Cap(t) ==
    /\ sbT[t].pc = "w_cap"
    /\ writeBufferRemainingCapacity' = Size
    /\ SetT(t, [sbT[t] EXCEPT !.pc = "w_unlock"])
    /\ sbEv' = <<"step", NoThread>>
    /\ UNCHANGED <<buffers, writeChannels, readChannels, readerShouldSwapPtrs,
                   readBufferLock, writeBuferLock, sbG>>

\* writeBuferLock.unlock(): the call returns, the write is complete
W_Unlock(t) ==
    /\ sbT[t].pc = "w_unlock"
    /\ writeBuferLock' = NoThread
    /\ SetT(t, IdleThread)
    /\ sbG' = [sbG EXCEPT !.done = sbT[t].id,
                          !.holdDone = IF \E c \in Consumers : Holding(c)
                                       THEN Max(@, sbT[t].id) ELSE @,
                          !.sinceGet = IF sbT[t].fresh THEN Min(@ + 1, 2) ELSE @]
    /\ sbEv' = <<"step", NoThread>>
    /\ UNCHANGED <<buffers, writeChannels, readChannels, writeBufferRemainingCapacity,
                   readerShouldSwapPtrs, readBufferLock>>

---------------------------------------------------------------------------
(* SwappableBuffer::getReadBuffer and ScopedReadBufferPtr::~ScopedReadBufferPtr *)

\* readBufferLock.lock(); return ScopedReadBufferPtr (*this)
R_Get(c) ==
    /\ sbT[c].pc = "idle"
    /\ readBufferLock = NoThread
    /\ readBufferLock' = c
    /\ sbT' = [t \in SBThreads |->
                  IF t = c THEN [sbT[c] EXCEPT !.pc = "holding"]
                  ELSE [sbT[t] EXCEPT !.fresh = (sbT[t].pc = "idle")]]
    /\ sbG' = [sbG EXCEPT !.sinceGet = 0, !.holdDone = 0, !.mustSee = 0,
                          !.quiet = \A p \in Producers : sbT[p].pc = "idle",
                          !.prev = readChannels]
    /\ sbEv' = <<"get", c>>
    /\ UNCHANGED <<buffers, writeChannels, readChannels, writeBufferRemainingCapacity,
                   readerShouldSwapPtrs, writeBuferLock>>

\* if (swapableBuffer.readerShouldSwapPtrs)
R_Check(c) ==
    /\ sbT[c].pc = "holding"
    /\ SetT(c, [sbT[c] EXCEPT !.pc = IF readerShouldSwapPtrs THEN "r_swap" ELSE "r_unlock"])
    /\ sbEv' = <<"step", NoThread>>
    /\ UNCHANGED <<buffers, writeChannels, readChannels, writeBufferRemainingCapacity,
                   readerShouldSwapPtrs, readBufferLock, writeBuferLock, sbG>>

\* swapableBuffer.swapPtrs()
R_Swap(c) ==
    /\ sbT[c].pc = "r_swap"
    /\ SwapPtrs
    /\ SetT(c, [sbT[c] EXCEPT !.pc = "r_unlock"])
    /\ sbG' = [sbG EXCEPT !.full = IF @ = writeChannels THEN -1 ELSE @]
    /\ sbEv' = <<"step", NoThread>>
    /\ UNCHANGED <<buffers, writeBufferRemainingCapacity, readerShouldSwapPtrs,
                   readBufferLock, writeBuferLock>>

\* swapableBuffer.readBufferLock.unlock(): the handle is released
R_Unlock(c) ==
    /\ sbT[c].pc = "r_unlock"
    /\ readBufferLock' = NoThread
    /\ SetT(c, IdleThread)
    /\ sbG' = [sbG EXCEPT !.mustSee = sbG.holdDone]
    /\ sbEv' = <<"release", c>>
    /\ UNCHANGED <<buffers, writeChannels, readChannels, writeBufferRemainingCapacity,
                   readerShouldSwapPtrs, writeBuferLock>>

---------------------------------------------------------------------------
(* SwappableBuffer::appendToWriteBuffer, statement by statement *)

\* if (writeBuferLock.try_lock()); numElementsAvailable is the call's input
A_TryLock(t, max) ==
    /\ sbT[t].pc = "idle"
    /\ Len(sbG.len) < max
    /\ \E n \in 1 .. Size :
        IF TryLock(writeBuferLock)
        THEN /\ writeBuferLock' = t
             /\ SetT(t, [IdleThread EXCEPT !.pc = "a_clear", !.id = Len(sbG.len) + 1, !.n = n])
             /\ sbG' = [sbG EXCEPT !.len = Append(@, n), !.swapped = FALSE, !.quiet = FALSE]
             /\ sbEv' = <<"step", NoThread>>
        ELSE /\ sbEv' = <<"dropped", t>>
             /\ UNCHANGED <<writeBuferLock, sbT, sbG>>
    /\ UNCHANGED <<buffers, writeChannels, readChannels, writeBufferRemainingCapacity,
                   readerShouldSwapPtrs, readBufferLock>>

\* readerShouldSwapPtrs = false
A_ClearFlag(t) ==
    /\ sbT[t].pc = "a_clear"
    /\ readerShouldSwapPtrs' = FALSE
    /\ SetT(t, [sbT[t] EXCEPT !.pc = "a_compute"])
    /\ sbEv' = <<"step", NoThread>>
    /\ UNCHANGED <<buffers, writeChannels, readChannels, writeBufferRemainingCapacity,
                   readBufferLock, writeBuferLock, sbG>>

\* startIdx = size - writeBufferRemainingCapacity;
\* numElementsToWrite = jmin (numElementsAvailable, writeBufferRemainingCapacity)
A_Compute(t) ==
    /\ sbT[t].pc = "a_compute"
    /\ SetT(t, [sbT[t] EXCEPT !.pc = "a_memcpy", !.i = 0, !.wp = writeChannels,
                              !.startIdx = Size - writeBufferRemainingCapacity,
                              !.n = Min(@, writeBufferRemainingCapacity)])
    /\ sbEv' = <<"step", NoThread>>
    /\ UNCHANGED <<buffers, writeChannels, readChannels, writeBufferRemainingCapacity,
                   readerShouldSwapPtrs, readBufferLock, writeBuferLock, sbG>>

\* std::memcpy ((*writeChannels)[i] + startIdx, dataToWrite[i], numElementsToWrite * sizeof (T))
A_Memcpy(t) ==
    /\ sbT[t].pc = "a_memcpy"
    /\ \E tgt \in CopyTargets(t) :
        /\ buffers' = [buffers EXCEPT ![tgt][sbT[t].i] =
                          [j \in 1 .. Size |->
                              IF j > sbT[t].startIdx /\ j <= sbT[t].startIdx + sbT[t].n
                              THEN sbT[t].id ELSE @[j]]]
        /\ sbG' = [sbG EXCEPT !.wroteFull = @ \/ (sbG.full = tgt)]
    /\ SetT(t, [sbT[t] EXCEPT !.i = @ + 1,
                              !.pc = IF sbT[t].i + 1 < NumCh THEN "a_memcpy" ELSE "a_deccap"])
    /\ sbEv' = <<"step", NoThread>>
    /\ UNCHANGED <<writeChannels, readChannels, writeBufferRemainingCapacity,
                   readerShouldSwapPtrs, readBufferLock, writeBuferLock>>

\* writeBufferRemainingCapacity -= numElementsToWrite; if (writeBufferRemainingCapacity == 0)
A_DecCap(t) ==
    /\ sbT[t].pc = "a_deccap"
    /\ writeBufferRemainingCapacity' = writeBufferRemainingCapacity - sbT[t].n
    /\ SetT(t, [sbT[t] EXCEPT !.pc = IF writeBufferRemainingCapacity' = 0
                                     THEN "a_tryread" ELSE "a_unlock_false"])
    /\ sbG' = [sbG EXCEPT !.full = IF writeBufferRemainingCapacity' = 0
                                   THEN writeChannels ELSE @]
    /\ sbEv' = <<"step", NoThread>>
    /\ UNCHANGED <<buffers, writeChannels, readChannels, readerShouldSwapPtrs,
                   readBufferLock, writeBuferLock>>

\* if (readBufferLock.try_lock ())
A_TryRead(t) ==
    /\ sbT[t].pc = "a_tryread"
    /\ IF TryLock(readBufferLock)
       THEN /\ readBufferLock' = t
            /\ SetT(t, [sbT[t] EXCEPT !.pc = "a_swap"])
       ELSE /\ SetT(t, [sbT[t] EXCEPT !.pc = "a_setflag"])
            /\ UNCHANGED readBufferLock
    /\ sbEv' = <<"step", NoThread>>
    /\ UNCHANGED <<buffers, writeChannels, readChannels, writeBufferRemainingCapacity,
                   readerShouldSwapPtrs, writeBuferLock, sbG>>

\* swapPtrs ()
A_Swap(t) ==
    /\ sbT[t].pc = "a_swap"
    /\ SwapPtrs
    /\ SetT(t, [sbT[t] EXCEPT !.pc = "a_unlockread"])
    /\ sbG' = [sbG EXCEPT !.full = IF @ = writeChannels THEN -1 ELSE @, !.swapped = TRUE]
    /\ sbEv' = <<"step", NoThread>>
    /\ UNCHANGED <<buffers, writeBufferRemainingCapacity, readerShouldSwapPtrs,
                   readBufferLock, writeBuferLock>>

\* readBufferLock.unlock ()
A_UnlockRead(t) ==
    /\ sbT[t].pc = "a_unlockread"
    /\ readBufferLock' = NoThread
    /\ SetT(t, [sbT[t] EXCEPT !.pc = "a_cap"])
    /\ sbEv' = <<"step", NoThread>>
    /\ UNCHANGED <<buffers, writeChannels, readChannels, writeBufferRemainingCapacity,
                   readerShouldSwapPtrs, writeBuferLock, sbG>>

\* else readerShouldSwapPtrs = true
A_SetFlag(t) ==
    /\ sbT[t].pc = "a_setflag"
    /\ readerShouldSwapPtrs' = TRUE
    /\ SetT(t, [sbT[t] EXCEPT !.pc = "a_cap"])
    /\ sbEv' = <<"step", NoThread>>
    /\ UNCHANGED <<buffers, writeChannels, readChannels, writeBufferRemainingCapacity,
                   readBufferLock, writeBuferLock, sbG>>

\* writeBufferRemainingCapacity = size
A_Cap(t) ==
    /\ sbT[t].pc = "a_cap"
    /\ writeBufferRemainingCapacity' = Size
    /\ SetT(t, [sbT[t] EXCEPT !.pc = "a_unlock_true"])
    /\ sbEv' = <<"step", NoThread>>
    /\ UNCHANGED <<buffers, writeChannels, readChannels, readerShouldSwapPtrs,
                   readBufferLock, writeBuferLock, sbG>>

\* writeBuferLock.unlock(); return true   (the region was filled)
\* writeBuferLock.unlock(); return false  (capacity left)
A_Unlock(t) ==
    /\ sbT[t].pc \in {"a_unlock_true", "a_unlock_false"}
    /\ writeBuferLock' = NoThread
    /\ SetT(t, IdleThread)
    /\ sbG' = [sbG EXCEPT !.ret = (sbT[t].pc = "a_unlock_true")]
    /\ sbEv' = <<"step", NoThread>>
    /\ UNCHANGED <<buffers, writeChannels, readChannels, writeBufferRemainingCapacity,
                   readerShouldSwapPtrs, readBufferLock>>


---------------------------------------------------------------------------
(* DataCollector used by two threads: the realtime thread pushes samples into  *)
(* an OscilloscopeDataCollector (pushChannelsSamples), the GUI thread reads    *)
(* (startReading / finishedReading). Statement by statement.                   *)

\* sizeof (float)
SizeofFloat == 4
\* the configuration of the collector under concurrent use: setChannels,
\* setSampleRate and setTimeViewed were called before the threads start
ColChannels == 1
ColFrameLen == 2
\* largest number of samples per channel of a pushed AudioBuffer
MaxPushLen == 2

ColThreads == {"prod", "cons"}

VARIABLES
    col,      \* the fields of the DataCollector and of the OscilloscopeDataCollector
    colT,     \* per thread: position and locals of the running call
    colG,     \* history (not program state)
    colEv     \* the step taken last (not program state)

colVars == <<col, colT, colG, colEv>>

ColIdle == [pc |-> "idle", chans |-> 0, n |-> 0, trig |-> 0]

\* juce::MemoryBlock: mem names the storage, so that swapWith can be followed
ColInit ==
    /\  col = [readBlock |-> [mem |-> 1, size |-> 0],
               writeBlock |-> [mem |-> 0, size |-> 0],
               readerShouldSwapBlocks |-> FALSE,
               readBufferLock |-> NoThread,
               writeBufferLock |-> NoThread,
               expectedBlockSize |-> ColChannels * ColFrameLen * SizeofFloat,
               numChannels |-> ColChannels,
               numSamplesExpected |-> ColFrameLen,
               expectedNumBytesForMemoryBlock |-> ColChannels * ColFrameLen * SizeofFloat,
               currentWriteBlock |-> FALSE,
               numSamplesInCurrentBlock |-> 0,
               triggeringEnabled |-> FALSE,
               foundTriggerInCurrentBlock |-> FALSE]
    /\ colT = [t \in ColThreads |-> ColIdle]
    /\ colG = [wmem |-> -1, rmem |-> -1, called |-> FALSE]
    /\ colEv = "init"

SetColT(t, r) == colT' = [colT EXCEPT ![t] = r]

\* the producer is between startWriting and finishedWriting
Filling == colG.wmem # -1
\* the consumer is between startReading and finishedReading
Reading == colG.rmem # -1

\* OscilloscopeDataCollector::pushChannelsSamples, lines 80-113: what a push of n
\* samples per channel, whose trigger channel has its first rising zero crossing at
\* index trig (0: none), adds to the block in progress
OscCopied(c, n, trig) ==
    IF c.triggeringEnabled /\ ~c.foundTriggerInCurrentBlock
    THEN IF trig >= 1
         THEN [found |-> TRUE,
               num |-> Min(n - trig, c.numSamplesExpected - c.numSamplesInCurrentBlock)]
         ELSE [found |-> c.foundTriggerInCurrentBlock, num |-> c.numSamplesInCurrentBlock]
    ELSE [found |-> c.foundTriggerInCurrentBlock,
          num |-> c.numSamplesInCurrentBlock
                    + Min(n, c.numSamplesExpected - c.numSamplesInCurrentBlock)]

\* pushChannelsSamples: if (currentWriteBlock == nullptr) currentWriteBlock = startWriting();
\* startWriting: if (writeBufferLock.try_lock ()) return &writeBlock; return nullptr
P_Start(t) ==
    /\ colT[t].pc = "idle"
    /\ \E chans \in {col.numChannels, col.numChannels + 1}, n \in 1 .. MaxPushLen :
       \E trig \in 0 .. (n - 1) :
        IF col.currentWriteBlock
        THEN /\ SetColT(t, [pc |-> "p_body", chans |-> chans, n |-> n, trig |-> trig])
             /\ colEv' = "push"
             /\ UNCHANGED <<col, colG>>
        ELSE IF TryLock(col.writeBufferLock)
             THEN /\ col' = [col EXCEPT !.writeBufferLock = t, !.currentWriteBlock = TRUE]
                  /\ SetColT(t, [pc |-> "p_body", chans |-> chans, n |-> n, trig |-> trig])
                  /\ colG' = [colG EXCEPT !.wmem = col.writeBlock.mem]
                  /\ colEv' = "startWriting"
             ELSE /\ colEv' = "nullptr"
                  /\ UNCHANGED <<col, colT, colG>>

\* pushChannelsSamples, lines 65-118: the channel count or the block size does not
\* match (fillUnmatchingBlockWithZeros), or the samples are copied
P_Body(t) ==
    /\ colT[t].pc = "p_body"
    /\ IF \/ colT[t].chans # col.numChannels
          \/ col.writeBlock.size # col.expectedNumBytesForMemoryBlock
       THEN /\ SetColT(t, [colT[t] EXCEPT !.pc = "fw_try"])
            /\ colG' = [colG EXCEPT !.wmem = -1]
            /\ colEv' = "zeros"
            /\ UNCHANGED col
       ELSE LET r == OscCopied(col, colT[t].n, colT[t].trig) IN
            /\ col' = [col EXCEPT !.foundTriggerInCurrentBlock = r.found,
                                  !.numSamplesInCurrentBlock = r.num]
            /\ IF r.num = col.numSamplesExpected
               THEN /\ SetColT(t, [colT[t] EXCEPT !.pc = "fw_try"])
                    /\ colG' = [colG EXCEPT !.wmem = -1]
               ELSE /\ SetColT(t, ColIdle)
                    /\ UNCHANGED colG
            /\ colEv' = "copied"

\* finishedWriting: if (readBufferLock.try_lock())
FW_TryRead(t) ==
    /\ colT[t].pc = "fw_try"
    /\ IF TryLock(col.readBufferLock)
       THEN /\ col' = [col EXCEPT !.readBufferLock = t]
            /\ SetColT(t, [colT[t] EXCEPT !.pc = "fw_swap"])
       ELSE /\ SetColT(t, [colT[t] EXCEPT !.pc = "fw_flag"])
            /\ UNCHANGED col
    /\ colG' = [colG EXCEPT !.called = @ \/ (col.readBufferLock # NoThread
                                                /\ colT["cons"].pc = "reading")]
    /\ colEv' = "step"

\* finishedWriting: writeBlock.swapWith (readBlock)
FW_Swap(t) ==
    /\ colT[t].pc = "fw_swap"
    /\ col' = [col EXCEPT !.writeBlock = col.readBlock, !.readBlock = col.writeBlock]
    /\ SetColT(t, [colT[t] EXCEPT !.pc = "fw_unlockw"])
    /\ colEv' = "step"
    /\ UNCHANGED colG

\* finishedWriting: writeBufferLock.unlock()
FW_UnlockW(t) ==
    /\ colT[t].pc = "fw_unlockw"
    /\ col' = [col EXCEPT !.writeBufferLock = NoThread]
    /\ SetColT(t, [colT[t] EXCEPT !.pc = "fw_unlockr"])
    /\ colEv' = "step"
    /\ UNCHANGED colG

\* finishedWriting: readBufferLock.unlock()
FW_UnlockR(t) ==
    /\ colT[t].pc = "fw_unlockr"
    /\ col' = [col EXCEPT !.readBufferLock = NoThread]
    /\ SetColT(t, [colT[t] EXCEPT !.pc = "fw_ready"])
    /\ colEv' = "step"
    /\ UNCHANGED colG

\* finishedWriting: dataBlockReady (sinkIdx)
FW_Ready(t) ==
    /\ colT[t].pc = "fw_ready"
    /\ SetColT(t, [colT[t] EXCEPT !.pc = "p_reset"])
    /\ colEv' = "ready_prod"
    /\ UNCHANGED <<col, colG>>

\* finishedWriting: else readerShouldSwapBlocks = true
FW_SetFlag(t) ==
    /\ colT[t].pc = "fw_flag"
    /\ col' = [col EXCEPT !.readerShouldSwapBlocks = TRUE]
    /\ SetColT(t, [colT[t] EXCEPT !.pc = "p_reset"])
    /\ colEv' = "step"
    /\ UNCHANGED colG

\* prepareForNextSampleBlock after finishedWriting: currentWriteBlock = nullptr;
\* foundTriggerInCurrentBlock = false; numSamplesInCurrentBlock = 0
P_Reset(t) ==
    /\ colT[t].pc = "p_reset"
    /\ col' = [col EXCEPT !.currentWriteBlock = FALSE,
                          !.foundTriggerInCurrentBlock = FALSE,
                          !.numSamplesInCurrentBlock = 0]
    /\ SetColT(t, ColIdle)
    /\ colEv' = "push_end"
    /\ UNCHANGED colG

\* enableTriggering (isTriggered), called by the thread that also reads, between
\* two reads: triggeringEnabled = isTriggered
ET_Set(t) ==
    /\ colT[t].pc = "idle"
    /\ col' = [col EXCEPT !.triggeringEnabled = ~col.triggeringEnabled]
    /\ colEv' = "enableTriggering"
    /\ UNCHANGED <<colT, colG>>

\* startReading: readBufferLock.lock(); return readBlock
SR_Lock(t) ==
    /\ colT[t].pc = "idle"
    /\ col.readBufferLock = NoThread
    /\ col' = [col EXCEPT !.readBufferLock = t]
    /\ SetColT(t, [colT[t] EXCEPT !.pc = "reading"])
    /\ colG' = [colG EXCEPT !.rmem = col.readBlock.mem]
    /\ colEv' = "startReading"

\* finishedReading: if (readBlock.getSize() != expectedBlockSize)
\*                      readBlock.setSize (expectedBlockSize, true)
FR_Resize(t) ==
    /\ colT[t].pc = "reading"
    /\ col' = [col EXCEPT !.readBlock.size = col.expectedBlockSize]
    /\ SetColT(t, [colT[t] EXCEPT !.pc = "fr_check"])
    /\ colG' = [colG EXCEPT !.rmem = -1]
    /\ colEv' = "step"

\* a finishedReading that swaps without testing the flag (fault injected to test C2)
FR_CheckMutant(t) ==
    /\ colT[t].pc = "fr_check"
    /\ SetColT(t, [colT[t] EXCEPT !.pc = "fr_swap"])
    /\ colEv' = "step"
    /\ UNCHANGED <<col, colG>>

\* finishedReading: if (readerShouldSwapBlocks)
FR_Check(t) ==
    /\ colT[t].pc = "fr_check"
    /\ SetColT(t, [colT[t] EXCEPT !.pc = IF col.readerShouldSwapBlocks
                                         THEN "fr_swap" ELSE "fr_unlockr"])
    /\ colEv' = "step"
    /\ UNCHANGED <<col, colG>>

\* finishedReading: writeBlock.swapWith (readBlock)
FR_Swap(t) ==
    /\ colT[t].pc = "fr_swap"
    /\ col' = [col EXCEPT !.writeBlock = col.readBlock, !.readBlock = col.writeBlock]
    /\ SetColT(t, [colT[t] EXCEPT !.pc = "fr_unlockw"])
    /\ colG' = [colG EXCEPT !.called = FALSE]
    /\ colEv' = "step"

\* finishedReading: writeBufferLock.unlock(). The mutex was locked by the producer
\* thread in startWriting; the unlock from this thread releases it.
FR_UnlockW(t) ==
    /\ colT[t].pc = "fr_unlockw"
    /\ col' = [col EXCEPT !.writeBufferLock = NoThread]
    /\ SetColT(t, [colT[t] EXCEPT !.pc = "fr_clear"])
    /\ colEv' = "step"
    /\ UNCHANGED colG

\* finishedReading: readerShouldSwapBlocks = false
FR_Clear(t) ==
    /\ colT[t].pc = "fr_clear"
    /\ col' = [col EXCEPT !.readerShouldSwapBlocks = FALSE]
    /\ SetColT(t, [colT[t] EXCEPT !.pc = "fr_ready"])
    /\ colEv' = "step"
    /\ UNCHANGED colG

\* finishedReading: dataBlockReady (sinkIdx)
FR_Ready(t) ==
    /\ colT[t].pc = "fr_ready"
    /\ SetColT(t, [colT[t] EXCEPT !.pc = "fr_unlockr"])
    /\ colEv' = "ready_cons"
    /\ UNCHANGED <<col, colG>>

\* finishedReading: readBufferLock.unlock()
FR_UnlockR(t) ==
    /\ colT[t].pc = "fr_unlockr"
    /\ col' = [col EXCEPT !.readBufferLock = NoThread]
    /\ SetColT(t, ColIdle)
    /\ colEv' = "read_end"
    /\ UNCHANGED colG

---------------------------------------------------------------------------
(* The two collectors call by call. Every action is one whole call of a member *)
(* function: pushChannelsSamples by the realtime thread, the setters by the    *)
(* thread that configures the collector, startReading and finishedReading by   *)
(* the sink. The contents of the memory blocks are modelled.                   *)

\* channel counts configured by setChannels; a pushed buffer has the configured
\* number of channels or one more
ChannelCounts == {1}
\* FFT orders set by setFFTOrder (FFT length 2^order)
FFTOrders == {1}
\* FFT orders set where the order is changed while samples are pushed
ChangedFFTOrders == {1, 2}
\* largest number of setFFTOrder calls in such a run
MaxSetFFTOrder == 2
\* tView is counted in 1/TViewPerSecond s: double tView = 0.01
TViewPerSecond == 100
\* number of spectra averaged into one published block
numFFTSToAverage == 3
\* the FFT order setSampleRate chooses when none was set
DefaultFFTOrder == 11

\* sample values pushed; channel c (1-based) of a pushed buffer carries c * s[i]
OscSamples == {-1, 1}
SpectralSamples == {1}
\* sample rates set by setSampleRate, times set by setTimeViewed (in 1/TViewPerSecond s)
SampleRates == {100, 200}
TimesViewed == {1}
\* the channel counts of the buffers pushed to collector c: the configured one or
\* one more, at least one
PushedChannels(c) == {c.numChannels, c.numChannels + 1} \ {0}
\* the pushed buffers, as the samples of their first channel
PushedBuffers(samples) == UNION {[1 .. n -> samples] : n \in 1 .. MaxPushLen}
\* the pushed buffers of the largest length
LongBuffers(samples) == [1 .. MaxPushLen -> samples]

VARIABLES
    osc,      \* the fields of an OscilloscopeDataCollector
    sdc,      \* the fields of a SpectralDataCollector
    call      \* the call made last and the path it took (not program state)

pushVars == <<osc, sdc, call>>

\* juce::MemoryBlock: size in bytes, data as the floats it holds
EmptyBlock == [size |-> 0, data |-> <<>>]

\* juce::MemoryBlock::setSize (newSize, true): the contents are kept up to the
\* smaller of the two sizes, added bytes are zero (z: the zero of the element type)
SetSize(b, newSize, z) ==
    [size |-> newSize,
     data |-> [i \in 1 .. (newSize \div SizeofFloat) |->
                  IF i <= Len(b.data) THEN b.data[i] ELSE z]]

\* juce::FloatVectorOperations::clear over the whole block
ClearBlock(b, z) == [b EXCEPT !.data = [i \in 1 .. Len(b.data) |-> z]]

\* DataCollector::resizeMemoryBlock
ResizeMemoryBlock(c, newSizeInBytes) == [c EXCEPT !.expectedBlockSize = newSizeInBytes]

\* DataCollector::startWriting, assigned to currentWriteBlock by the caller
StartWriting(c) ==
    IF TryLock(c.writeBufferLock)
    THEN [c EXCEPT !.writeBufferLock = "prod", !.currentWriteBlock = TRUE]
    ELSE c

\* DataCollector::finishedWriting
FinishedWriting(c) ==
    IF TryLock(c.readBufferLock)
    THEN [c EXCEPT !.writeBlock = c.readBlock, !.readBlock = c.writeBlock,
                   !.writeBufferLock = NoThread]
    ELSE [c EXCEPT !.readerShouldSwapBlocks = TRUE]

\* DataCollector::startReading
StartReading(c) == [c EXCEPT !.readBufferLock = "cons"]

\* DataCollector::finishedReading
FinishedReading(c, z) ==
    LET r == IF c.readBlock.size # c.expectedBlockSize
             THEN [c EXCEPT !.readBlock = SetSize(c.readBlock, c.expectedBlockSize, z)]
             ELSE c
        s == IF r.readerShouldSwapBlocks
             THEN [r EXCEPT !.writeBlock = r.readBlock, !.readBlock = r.writeBlock,
                            !.writeBufferLock = NoThread,
                            !.readerShouldSwapBlocks = FALSE]
             ELSE r
    IN [s EXCEPT !.readBufferLock = NoThread]

\* the record of a call; a push adds the buffer pushed (its channel count and the
\* samples of its first channel) and whether processFFT ran. trigFrame: triggering
\* has been enabled ever since the oscilloscope's frame in progress was begun;
\* orders: the number of setFFTOrder calls made; streamed, ffts, pubs: the samples
\* per channel pushed to the spectral collector, the transforms run and the blocks
\* published since a push found the collector idle (streamed = -1: not counting)
Called(coll, op, mismatch, inProgress, finished) ==
    [coll |-> coll, op |-> op, mismatch |-> mismatch,
     inProgress |-> inProgress, finished |-> finished,
     chans |-> 0, buffer |-> <<>>, transformed |-> FALSE,
     trigFrame |-> call.trigFrame, orders |-> call.orders,
     streamed |-> call.streamed, ffts |-> call.ffts, pubs |-> call.pubs]

---------------------------------------------------------------------------
(* OscilloscopeDataCollector *)

\* the collector after construction (OscilloscopeDataCollector.h, DataCollector.h);
\* sampleRate stands for tSample = 1.0 / sampleRate
OscConstructed ==
    [readBlock |-> EmptyBlock, writeBlock |-> EmptyBlock,
     readerShouldSwapBlocks |-> FALSE,
     readBufferLock |-> NoThread, writeBufferLock |-> NoThread,
     expectedBlockSize |-> 0,
     numChannels |-> 0, channelOffset |-> <<>>,
     currentWriteBlock |-> FALSE,
     expectedNumBytesForMemoryBlock |-> 0,
     numSamplesInCurrentBlock |-> 0,
     sampleRate |-> 1, tView |-> 1, numSamplesExpected |-> 0,
     triggeringEnabled |-> FALSE, foundTriggerInCurrentBlock |-> FALSE,
     triggerChannel |-> 0]

\* juce::roundToInt (num / den): to the nearest integer, halves to the even one
RoundToInt(num, den) ==
    LET q == num \div den
        r == num % den
    IN IF 2 * r < den THEN q
       ELSE IF 2 * r > den THEN q + 1
       ELSE IF q % 2 = 0 THEN q ELSE q + 1

OscRecalculateMemoryMutant(c) ==
    LET bytes == c.numChannels * c.numSamplesExpected * SizeofFloat
    IN [ResizeMemoryBlock(c, bytes) EXCEPT !.expectedNumBytesForMemoryBlock = bytes]
\* OscilloscopeDataCollector::recalculateMemory
OscRecalculateMemory(c) ==
    LET bytes == c.numChannels * c.numSamplesExpected * SizeofFloat
    IN [ResizeMemoryBlock(c, bytes) EXCEPT
            !.expectedNumBytesForMemoryBlock = bytes,
            !.channelOffset = [i \in 1 .. c.numChannels |-> (i - 1) * c.numSamplesExpected]]

\* OscilloscopeDataCollector::recalculateNumSamples: roundToInt (tView / tSample)
OscRecalculateNumSamples(c) ==
    OscRecalculateMemory(
        [c EXCEPT !.numSamplesExpected = RoundToInt(c.tView * c.sampleRate, TViewPerSecond),
                  !.numSamplesInCurrentBlock = 0])

\* OscilloscopeDataCollector::prepareForNextSampleBlock
PrepareForNextSampleBlock(c) ==
    [FinishedWriting(c) EXCEPT !.currentWriteBlock = FALSE,
                               !.foundTriggerInCurrentBlock = FALSE,
                               !.numSamplesInCurrentBlock = 0]

\* OscilloscopeDataCollector::fillUnmatchingBlockWithZeros
FillUnmatchingBlockWithZeros(c) ==
    PrepareForNextSampleBlock([c EXCEPT !.writeBlock = ClearBlock(c.writeBlock, 0)])

\* the first index i >= 1 (0-based) with tc[i - 1] <= 0 and tc[i] > 0, or 0
TriggerIndex(tc) ==
    LET hits == {i \in 1 .. (Len(tc) - 1) : tc[i] <= 0 /\ tc[i + 1] > 0}
    IN IF hits = {} THEN 0 ELSE CHOOSE i \in hits : \A j \in hits : i <= j

\* FloatVectorOperations::copy for every channel: num samples of the pushed buffer,
\* from index src (0-based), to channelOffset[ch] + dst of the block
CopyChannels(c, s, dst, src, num) ==
    LET hit(j) == {ch \in 1 .. c.numChannels :
                      /\ j - 1 >= c.channelOffset[ch] + dst
                      /\ j - 1 < c.channelOffset[ch] + dst + num}
    IN [c EXCEPT !.writeBlock.data =
            [j \in 1 .. Len(c.writeBlock.data) |->
                IF hit(j) = {} THEN c.writeBlock.data[j]
                ELSE LET ch == CHOOSE x \in hit(j) : \A y \in hit(j) : x >= y
                     IN ch * s[(j - 1) - c.channelOffset[ch] - dst + src + 1]]]

\* pushChannelsSamples, lines 80-113: the samples of a matching buffer are copied
OscCopy(c, s) ==
    IF c.triggeringEnabled /\ ~c.foundTriggerInCurrentBlock
    THEN LET i == TriggerIndex([k \in 1 .. Len(s) |-> (c.triggerChannel + 1) * s[k]])
             numSamplesToCopy == Min(Len(s) - i,
                                     c.numSamplesExpected - c.numSamplesInCurrentBlock)
         IN IF i = 0 THEN c
            ELSE [CopyChannels(c, s, 0, i, numSamplesToCopy) EXCEPT
                      !.foundTriggerInCurrentBlock = TRUE,
                      !.numSamplesInCurrentBlock = numSamplesToCopy]
    ELSE LET numSamplesToCopy == Min(Len(s),
                                     c.numSamplesExpected - c.numSamplesInCurrentBlock)
         IN [CopyChannels(c, s, c.numSamplesInCurrentBlock, 0, numSamplesToCopy) EXCEPT
                 !.numSamplesInCurrentBlock = @ + numSamplesToCopy]

\* OscilloscopeDataCollector::pushChannelsSamples with a buffer of chans channels
OscPushChannelsSamples(chans, s) ==
    LET c1 == IF osc.currentWriteBlock THEN osc ELSE StartWriting(osc)
        unmatching == \/ chans # c1.numChannels
                      \/ c1.writeBlock.size # c1.expectedNumBytesForMemoryBlock
        c2 == OscCopy(c1, s)
        full == c2.numSamplesInCurrentBlock = c2.numSamplesExpected
    IN /\ osc' = IF ~c1.currentWriteBlock THEN c1
                 ELSE IF unmatching THEN FillUnmatchingBlockWithZeros(c1)
                 ELSE IF full THEN PrepareForNextSampleBlock(c2)
                 ELSE c2
       /\ call' = [Called("osc", "push", chans # osc.numChannels, c1.currentWriteBlock,
                          c1.currentWriteBlock /\ (unmatching \/ full))
                       EXCEPT !.chans = chans, !.buffer = s,
                              !.trigFrame = IF c1.currentWriteBlock /\ (unmatching \/ full)
                                            THEN osc.triggeringEnabled ELSE @]
       /\ UNCHANGED sdc

\* OscilloscopeDataCollector::setChannels
OscSetChannels(n) ==
    /\ osc' = OscRecalculateMemory([osc EXCEPT !.numChannels = n])
    /\ call' = Called("osc", "setChannels", FALSE, FALSE, FALSE)
    /\ UNCHANGED sdc

\* OscilloscopeDataCollector::setTimeViewed
OscSetTimeViewed(t) ==
    /\ osc' = OscRecalculateNumSamples([osc EXCEPT !.tView = t])
    /\ call' = [Called("osc", "setTimeViewed", FALSE, FALSE, FALSE)
                   EXCEPT !.trigFrame = osc.triggeringEnabled]
    /\ UNCHANGED sdc

\* OscilloscopeDataCollector::setSampleRate
OscSetSampleRate(rate) ==
    /\ osc' = OscRecalculateNumSamples([osc EXCEPT !.sampleRate = rate])
    /\ call' = [Called("osc", "setSampleRate", FALSE, FALSE, FALSE)
                   EXCEPT !.trigFrame = osc.triggeringEnabled]
    /\ UNCHANGED sdc

\* OscilloscopeDataCollector::enableTriggering (isTriggered), channelToUse = 0
OscEnableTriggering(isTriggered) ==
    /\ osc' = [osc EXCEPT !.triggeringEnabled = isTriggered, !.triggerChannel = 0]
    /\ call' = [Called("osc", "enableTriggering", FALSE, FALSE, FALSE)
                   EXCEPT !.trigFrame =
                       /\ isTriggered
                       /\ @ \/ (osc.numSamplesInCurrentBlock = 0
                                 /\ ~osc.foundTriggerInCurrentBlock)]
    /\ UNCHANGED sdc

\* the sink: startReading of the oscilloscope's collector
OscStartReading ==
    /\ osc.readBufferLock = NoThread
    /\ osc' = StartReading(osc)
    /\ call' = Called("osc", "startReading", FALSE, FALSE, FALSE)
    /\ UNCHANGED sdc

\* the sink: finishedReading of the oscilloscope's collector
OscFinishedReading ==
    /\ osc.readBufferLock = "cons"
    /\ osc' = FinishedReading(osc, 0)
    /\ call' = Called("osc", "finishedReading", FALSE, FALSE, FALSE)
    /\ UNCHANGED sdc

---------------------------------------------------------------------------
(* SpectralDataCollector *)

\* A float of a spectral block is kept as the operations that built it from 0:
\* <<"add", m>> adds the magnitude sqrt(m) of a bin, <<"mul", N>> multiplies by
\* 2 / (N * numFFTSToAverage). The empty sequence is 0.
SpectralZero == <<>>

\* the collector after construction (SpectralDataCollector.h, DataCollector.h).
\* windowingFunction is the length of the Hamming window held, 0 for none.
\* sampleBuffer holds the real parts, the imaginary parts written are always 0.
SpectralConstructed ==
    [readBlock |-> EmptyBlock, writeBlock |-> EmptyBlock,
     readerShouldSwapBlocks |-> FALSE,
     readBufferLock |-> NoThread, writeBufferLock |-> NoThread,
     expectedBlockSize |-> 0,
     fftOrder |-> 0, windowingFunction |-> 0,
     numSamplesExpected |-> 0, numFFTSCalculated |-> 0,
     numChannels |-> 0, channelOffset |-> <<>>,
     sampleBuffer |-> <<>>, spectralBuffer |-> <<>>,
     currentWriteBlock |-> FALSE,
     expectedNumBytesForMemoryBlock |-> 0,
     numSamplesInSampleBuffer |-> 0,
     numSamplesAllChannels |-> 0]

\* SpectralDataCollector::recalculateMemory
SpectralRecalculateMemory(c) ==
    LET all == c.numChannels * c.numSamplesExpected
    IN [ResizeMemoryBlock(c, all * SizeofFloat) EXCEPT
            !.numSamplesAllChannels = all,
            !.expectedNumBytesForMemoryBlock = all * SizeofFloat,
            !.sampleBuffer = [i \in 1 .. all |-> 0],
            !.spectralBuffer = [i \in 1 .. all |-> <<0, 0>>],
            !.channelOffset = [i \in 1 .. c.numChannels |-> (i - 1) * c.numSamplesExpected]]

\* exp (-2 pi i e / N) as <<re, im>>, exact for the lengths N = 1, 2, 4
Twiddle(N, e) ==
    LET q == (e * (4 \div N)) % 4
    IN CASE q = 0 -> <<1, 0>> [] q = 1 -> <<0, -1>> [] q = 2 -> <<-1, 0>> [] q = 3 -> <<0, 1>>

\* bin k of the forward transform of the real samples x[1 .. n]
RECURSIVE Bin(_, _, _, _)
Bin(x, N, k, n) ==
    IF n = 0 THEN <<0, 0>>
    ELSE LET w == Twiddle(N, k * (n - 1))
             r == Bin(x, N, k, n - 1)
         IN <<r[1] + x[n] * w[1], r[2] + x[n] * w[2]>>

\* juce::dsp::FFT::perform (input, output, false) for every channel
PerformFFT(c) ==
    LET N == c.numSamplesExpected
        chan(j) == (j - 1) \div N
        x(j) == [n \in 1 .. N |-> c.sampleBuffer[chan(j) * N + n]]
    IN [c EXCEPT !.spectralBuffer =
            [j \in 1 .. c.numSamplesAllChannels |-> Bin(x(j), N, (j - 1) % N, N)]]

\* the square of std::abs of a complex number
NormSq(z) == z[1] * z[1] + z[2] * z[2]

\* processFFT, lines 144-172: the spectrum is added to the block in progress; the
\* third one is scaled and published; a block of the wrong size is published as is
Accumulate(c) ==
    IF c.writeBlock.size = c.expectedNumBytesForMemoryBlock
    THEN LET summed == [c EXCEPT
                 !.writeBlock.data =
                     [n \in 1 .. Len(c.writeBlock.data) |->
                         IF n <= c.numSamplesAllChannels
                         THEN Append(c.writeBlock.data[n],
                                     <<"add", NormSq(c.spectralBuffer[n])>>)
                         ELSE c.writeBlock.data[n]],
                 !.numFFTSCalculated = @ + 1]
             scaled == [summed EXCEPT
                 !.writeBlock.data =
                     [n \in 1 .. Len(summed.writeBlock.data) |->
                         IF n <= c.numSamplesAllChannels
                         THEN Append(summed.writeBlock.data[n],
                                     <<"mul", c.numSamplesExpected>>)
                         ELSE summed.writeBlock.data[n]]]
         IN IF summed.numFFTSCalculated = numFFTSToAverage
            THEN [FinishedWriting(scaled) EXCEPT !.currentWriteBlock = FALSE,
                                                 !.numFFTSCalculated = 0]
            ELSE summed
    ELSE [FinishedWriting(c) EXCEPT !.currentWriteBlock = FALSE]

\* SpectralDataCollector::processFFT, called with processingLock held by the caller
\* (a recursive mutex: the try_lock succeeds)
ProcessFFT(c) ==
    LET c1 == PerformFFT(c)
        got == StartWriting(c1)
        c2 == IF c1.currentWriteBlock THEN c1
              ELSE IF got.currentWriteBlock
                   THEN [got EXCEPT !.writeBlock = ClearBlock(got.writeBlock, SpectralZero)]
                   ELSE got
        c3 == IF c2.currentWriteBlock THEN Accumulate(c2) ELSE c2
    IN [c3 EXCEPT !.numSamplesInSampleBuffer = 0]

\* pushChannelsSamples, lines 74-86: the samples are copied into the sample buffer
SpectralCopy(c, s) ==
    LET numSamplesToCopy == Min(Len(s), c.numSamplesExpected - c.numSamplesInSampleBuffer)
        hit(j) == {ch \in 1 .. c.numChannels :
                      /\ j - 1 >= c.channelOffset[ch] + c.numSamplesInSampleBuffer
                      /\ j - 1 < c.channelOffset[ch] + c.numSamplesInSampleBuffer
                                    + numSamplesToCopy}
    IN [c EXCEPT
           !.sampleBuffer =
               [j \in 1 .. Len(c.sampleBuffer) |->
                   IF hit(j) = {} THEN c.sampleBuffer[j]
                   ELSE LET ch == CHOOSE x \in hit(j) : \A y \in hit(j) : x >= y
                        IN ch * s[(j - 1) - c.channelOffset[ch]
                                    - c.numSamplesInSampleBuffer + 1]],
           !.numSamplesInSampleBuffer = @ + numSamplesToCopy]

\* the collector is idle: the sample buffer is empty, no spectrum is accumulated,
\* no block is held and both blocks have the expected size
Idle(c) ==
    /\ c.numSamplesInSampleBuffer = 0 /\ c.numFFTSCalculated = 0
    /\ ~c.currentWriteBlock /\ c.writeBufferLock = NoThread
    /\ c.numSamplesAllChannels > 0
    /\ c.writeBlock.size = c.expectedBlockSize
    /\ c.readBlock.size = c.expectedBlockSize

\* the counts of the stream after a push of len samples to collector c; counting
\* starts over when the push finds the collector idle and the last count is over
Streamed(c, len, transformed, finished) ==
    LET total == numFFTSToAverage * c.numSamplesExpected
        over == call.streamed = -1 \/ call.streamed >= total
        from == IF Idle(c) /\ over
                THEN [streamed |-> 0, ffts |-> 0, pubs |-> 0]
                ELSE [streamed |-> call.streamed, ffts |-> call.ffts,
                      pubs |-> call.pubs]
    IN IF over /\ ~Idle(c)
       THEN [from EXCEPT !.streamed = IF @ = -1 THEN -1 ELSE total + 1]
       ELSE [streamed |-> Min(from.streamed + len, total + 1),
             ffts |-> from.ffts + (IF transformed THEN 1 ELSE 0),
             pubs |-> from.pubs + (IF finished THEN 1 ELSE 0)]

\* SpectralDataCollector::pushChannelsSamples with a buffer of chans channels. No
\* other call runs during the push, so that processingLock.try_lock succeeds. The
\* FFT object exists once setFFTOrder was called.
SpectralPushChannelsSamples(chans, s) ==
    /\ sdc.fftOrder # 0
    /\ LET c1 == SpectralCopy(sdc, s)
           full == c1.numSamplesInSampleBuffer >= c1.numSamplesExpected
           matching == chans = sdc.numChannels
           finished == /\ matching
                       /\ full
                       /\ sdc.currentWriteBlock \/ TryLock(sdc.writeBufferLock)
                       /\ ~ProcessFFT(c1).currentWriteBlock
           counts == IF matching
                     THEN Streamed(sdc, Len(s), full, finished)
                     ELSE [streamed |-> call.streamed, ffts |-> call.ffts,
                           pubs |-> call.pubs]
       IN /\ sdc' = IF ~matching THEN sdc
                    ELSE IF full THEN ProcessFFT(c1)
                    ELSE c1
          /\ call' = [Called("spectral", "push", ~matching,
                             sdc.currentWriteBlock, finished)
                          EXCEPT !.chans = chans, !.buffer = s,
                                 !.transformed = (matching /\ full),
                                 !.streamed = counts.streamed,
                                 !.ffts = counts.ffts, !.pubs = counts.pubs]
    /\ UNCHANGED osc

\* SpectralDataCollector::setChannels
SpectralSetChannels(n) ==
    /\ sdc' = SpectralRecalculateMemory([sdc EXCEPT !.numChannels = n])
    /\ call' = [Called("spectral", "setChannels", FALSE, FALSE, FALSE)
                   EXCEPT !.streamed = -1]
    /\ UNCHANGED osc

\* SpectralDataCollector::setFFTOrder
SpectralSetFFTOrder(newFFTOrder) ==
    /\ sdc' = SpectralRecalculateMemory(
                 [sdc EXCEPT !.fftOrder = newFFTOrder,
                             !.numSamplesExpected = 2 ^ newFFTOrder,
                             !.windowingFunction = 2 ^ newFFTOrder])
    /\ call' = [Called("spectral", "setFFTOrder", FALSE, FALSE, FALSE)
                   EXCEPT !.orders = Min(@ + 1, MaxSetFFTOrder), !.streamed = -1]
    /\ UNCHANGED osc

\* the sink: startReading of the spectral collector
SpectralStartReading ==
    /\ sdc.readBufferLock = NoThread
    /\ sdc' = StartReading(sdc)
    /\ call' = Called("spectral", "startReading", FALSE, FALSE, FALSE)
    /\ UNCHANGED osc

\* the sink: finishedReading of the spectral collector
SpectralFinishedReading ==
    /\ sdc.readBufferLock = "cons"
    /\ sdc' = FinishedReading(sdc, SpectralZero)
    /\ call' = Called("spectral", "finishedReading", FALSE, FALSE, FALSE)
    /\ UNCHANGED osc

---------------------------------------------------------------------------
(* The settings of the two collectors, call by call: the setters of the     *)
(* collector side and applySettingFromTarget, reached from the target side *)

SettingChannelCounts == {1, 2}
SettingTimesViewed == {1, 2}
TriggerChannels == {0, 1}

\* a juce::var: its type and its value
SettingValues ==
    [type : {"double"}, v : SettingTimesViewed] \cup [type : {"bool"}, v : BOOLEAN]
        \cup [type : {"int"}, v : ChangedFFTOrders] \cup [type : {"string"}, v : {"x"}]

\* keys sent by a target; "gain" is a key of no collector
SettingKeys == {"timeViewed", "isTriggered", "fftOrder", "numChannels", "gain"}

\* OscilloscopeDataCollector::enableTriggering (isTriggered, channelToUse)
OscEnableTriggeringOn(isTriggered, channelToUse) ==
    /\ osc' = [osc EXCEPT !.triggeringEnabled = isTriggered,
                          !.triggerChannel = channelToUse]
    /\ call' = Called("osc", "enableTriggering", FALSE, FALSE, FALSE)
    /\ UNCHANGED sdc

\* OscilloscopeDataCollector::applySettingFromTarget
OscApplySettingFromTarget(setting, value) ==
    /\ osc' = IF setting = "timeViewed"
              THEN IF value.type = "double"
                   THEN OscRecalculateNumSamples([osc EXCEPT !.tView = value.v])
                   ELSE osc
              ELSE IF setting = "isTriggered" /\ value.type = "bool"
                   THEN [osc EXCEPT !.triggeringEnabled = value.v, !.triggerChannel = 0]
                   ELSE osc
    /\ call' = Called("osc", "applySettingFromTarget", FALSE, FALSE, FALSE)
    /\ UNCHANGED sdc

\* SpectralDataCollector::setFFTOrder, the collector's state after it
SpectralFFTOrderSet(c, newFFTOrder) ==
    SpectralRecalculateMemory(
        [c EXCEPT !.fftOrder = newFFTOrder,
                  !.numSamplesExpected = 2 ^ newFFTOrder,
                  !.windowingFunction = 2 ^ newFFTOrder])

\* SpectralDataCollector::setSampleRate: sampleRate and startFrequency are not
\* modelled
SpectralSetSampleRate ==
    /\ sdc' = IF sdc.fftOrder = 0 THEN SpectralFFTOrderSet(sdc, DefaultFFTOrder) ELSE sdc
    /\ call' = Called("spectral", "setSampleRate", FALSE, FALSE, FALSE)
    /\ UNCHANGED osc

\* SpectralDataCollector::applySettingFromTarget
SpectralApplySettingFromTarget(setting, value) ==
    /\ sdc' = IF setting = "fftOrder" /\ value.type = "int"
              THEN SpectralFFTOrderSet(sdc, value.v)
              ELSE sdc
    /\ call' = Called("spectral", "applySettingFromTarget", FALSE, FALSE, FALSE)
    /\ UNCHANGED osc

---------------------------------------------------------------------------
(* The OscilloscopeDataCollector under concurrent use: the realtime thread runs *)
(* pushChannelsSamples statement by statement while the consumer thread runs    *)
(* applySettingFromTarget statement by statement; the sink reads call by call.  *)
(* The class has no lock of its own: the only synchronisation is that of the    *)
(* DataCollector's two block locks.                                             *)

\* the collector is set up by setChannels and setSampleRate before the threads
\* start; applySettingFromTarget (timeViewed) sets one of these times (in
\* 1/TViewPerSecond s)
RaceChannelCounts == {2}
RaceSampleRates == {100}
RaceTimesViewed == {1, 2}

VARIABLES
    oscP,     \* the realtime thread: position and locals of its push
    oscC      \* the consumer thread: position and locals of its applySettingFromTarget

oscRaceVars == <<oscP, oscC>>

\* n: bufferToPush.getNumSamples(), trig: the index i of the first rising zero
\* crossing of the trigger channel in the buffer (0: none), toCopy:
\* numSamplesToCopy, ch: the loop index n. Not program state: changed (those of
\* numSamplesExpected, channelOffset and numSamplesInCurrentBlock that the other
\* thread has changed since the push began), usedChanged (the push read
\* one of them, in the push that is running or was the last to run), overrun (a
\* copy left the write block or the channel's region)
OscPIdle == [pc |-> "idle", n |-> 0, trig |-> 0, toCopy |-> 0, ch |-> 0,
             changed |-> {}, usedChanged |-> FALSE, overrun |-> FALSE]
OscCIdle == [pc |-> "idle", i |-> 0]

OscRaceInit ==
    /\ oscP = OscPIdle
    /\ oscC = OscCIdle

\* after undefined behaviour the program is not followed any further
Running == oscP.pc # "crashed"

\* the push reads the members fields
Uses(p, fields) == [p EXCEPT !.usedChanged = @ \/ (fields \cap oscP.changed # {})]

\* the push returns: its locals are gone
Returned(p) == [OscPIdle EXCEPT !.usedChanged = p.usedChanged]

\* the consumer thread writes member field while a push is running
Changes(field, differs) ==
    oscP' = IF oscP.pc # "idle" /\ differs
            THEN [oscP EXCEPT !.changed = @ \cup {field}]
            ELSE oscP

\* setChannels and setSampleRate, called once each before the threads start
RS_SetChannels(n) ==
    /\ oscP.pc = "idle" /\ oscC.pc = "idle"
    /\ osc.numChannels = 0
    /\ osc' = OscRecalculateMemory([osc EXCEPT !.numChannels = n])
    /\ UNCHANGED <<oscP, oscC, sdc, call>>

RS_SetSampleRate(rate) ==
    /\ oscP.pc = "idle" /\ oscC.pc = "idle"
    /\ osc.sampleRate = 1
    /\ osc' = OscRecalculateNumSamples([osc EXCEPT !.sampleRate = rate])
    /\ UNCHANGED <<oscP, oscC, sdc, call>>

\* the sink: startReading, finishedReading
RS_StartReading ==
    /\ Running
    /\ osc.readBufferLock = NoThread
    /\ osc' = StartReading(osc)
    /\ UNCHANGED <<oscP, oscC, sdc, call>>

RS_FinishedReading ==
    /\ Running
    /\ osc.readBufferLock = "cons"
    /\ osc' = FinishedReading(osc, 0)
    /\ UNCHANGED <<oscP, oscC, sdc, call>>

\* pushChannelsSamples, lines 62-65, with a buffer of numChannels channels
PR_Start(n, trig) ==
    /\ oscP.pc = "idle"
    /\ osc.numChannels > 0
    /\ LET c1 == IF osc.currentWriteBlock THEN osc ELSE StartWriting(osc)
       IN /\ osc' = c1
          /\ oscP' = IF c1.currentWriteBlock
                     THEN [oscP EXCEPT !.pc = "p_size", !.n = n, !.trig = trig,
                                       !.usedChanged = FALSE]
                     ELSE oscP
    /\ UNCHANGED <<oscC, sdc, call>>

\* lines 67-78: the size of the block is compared with the expected size
PR_Size ==
    /\ oscP.pc = "p_size"
    /\ IF osc.writeBlock.size # osc.expectedNumBytesForMemoryBlock
       THEN /\ osc' = FillUnmatchingBlockWithZeros(osc)
            /\ oscP' = Returned(oscP)
       ELSE /\ osc' = osc
            /\ oscP' = [oscP EXCEPT !.pc = "p_trig"]
    /\ UNCHANGED <<oscC, sdc, call>>

\* line 82: if (triggeringEnabled && !foundTriggerInCurrentBlock)
PR_Trig ==
    /\ oscP.pc = "p_trig"
    /\ oscP' = [oscP EXCEPT
                   !.pc = IF osc.triggeringEnabled /\ ~osc.foundTriggerInCurrentBlock
                          THEN "p_scan" ELSE "p_num"]
    /\ UNCHANGED <<osc, oscC, sdc, call>>

\* lines 84-91: the trigger channel is searched; numSamplesToCopy
PR_Scan ==
    /\ oscP.pc = "p_scan"
    /\ IF oscP.trig = 0
       THEN /\ oscP' = [oscP EXCEPT !.pc = "p_full"]
            /\ osc' = osc
       ELSE /\ osc' = [osc EXCEPT !.foundTriggerInCurrentBlock = TRUE]
            /\ oscP' = [Uses(oscP, {"numSamplesExpected", "numSamplesInCurrentBlock"})
                           EXCEPT !.pc = "p_tcopy", !.ch = 0,
                                  !.toCopy = Min(oscP.n - oscP.trig,
                                                 osc.numSamplesExpected
                                                    - osc.numSamplesInCurrentBlock)]
    /\ UNCHANGED <<oscC, sdc, call>>

\* line 106: numSamplesToCopy
PR_Num ==
    /\ oscP.pc = "p_num"
    /\ oscP' = [Uses(oscP, {"numSamplesExpected", "numSamplesInCurrentBlock"})
                   EXCEPT !.pc = "p_copy", !.ch = 0,
                          !.toCopy = Min(oscP.n, osc.numSamplesExpected
                                                     - osc.numSamplesInCurrentBlock)]
    /\ UNCHANGED <<osc, oscC, sdc, call>>

\* the floats of the write block that belong to channel ch (0-based): the block
\* holds numChannels regions of equal length
ChannelRegion(c, ch) ==
    LET len == Len(c.writeBlock.data) \div c.numChannels
    IN (ch * len + 1) .. ((ch + 1) * len)

\* lines 93-97 and 107-111, one turn of the loop: FloatVectorOperations::copy of
\* numSamplesToCopy floats to channelOffset[n] (+ numSamplesInCurrentBlock). A
\* copy that leaves the block or the channel's region, or has a negative length,
\* is undefined behaviour: the push is not followed any further. Only the place
\* of a copy is followed here, not the values of the samples it writes.
PR_Copy ==
    /\ oscP.pc \in {"p_tcopy", "p_copy"}
    /\ IF oscP.ch < osc.numChannels
       THEN LET dst == osc.channelOffset[oscP.ch + 1]
                         + (IF oscP.pc = "p_copy" THEN osc.numSamplesInCurrentBlock ELSE 0)
                target == (dst + 1) .. (dst + oscP.toCopy)
                used == Uses(oscP, {"channelOffset"}
                                     \cup (IF oscP.pc = "p_copy"
                                           THEN {"numSamplesInCurrentBlock"} ELSE {}))
            IN IF oscP.toCopy < 0 \/ ~(target \subseteq ChannelRegion(osc, oscP.ch))
               THEN /\ oscP' = [used EXCEPT !.pc = "crashed", !.overrun = TRUE]
                    /\ osc' = osc
               ELSE /\ oscP' = [used EXCEPT !.ch = @ + 1]
                    /\ osc' = osc
       ELSE /\ oscP' = [oscP EXCEPT !.pc = IF @ = "p_copy" THEN "p_add" ELSE "p_tset"]
            /\ osc' = osc
    /\ UNCHANGED <<oscC, sdc, call>>

\* line 99: numSamplesInCurrentBlock = numSamplesToCopy; line 112: += numSamplesToCopy
PR_Count ==
    /\ oscP.pc \in {"p_tset", "p_add"}
    /\ osc' = [osc EXCEPT !.numSamplesInCurrentBlock =
                  IF oscP.pc = "p_add" THEN @ + oscP.toCopy ELSE oscP.toCopy]
    /\ oscP' = [(IF oscP.pc = "p_add"
                 THEN Uses(oscP, {"numSamplesInCurrentBlock"}) ELSE oscP)
                   EXCEPT !.pc = "p_full"]
    /\ UNCHANGED <<oscC, sdc, call>>

\* lines 115-116: if (numSamplesInCurrentBlock == numSamplesExpected)
\* prepareForNextSampleBlock()
PR_Full ==
    /\ oscP.pc = "p_full"
    /\ osc' = IF osc.numSamplesInCurrentBlock = osc.numSamplesExpected
              THEN PrepareForNextSampleBlock(osc) ELSE osc
    /\ oscP' = Returned(Uses(oscP, {"numSamplesExpected", "numSamplesInCurrentBlock"}))
    /\ UNCHANGED <<oscC, sdc, call>>

\* applySettingFromTarget (settingTimeViewed, value), line 127: tView = value
AS_TimeViewed(value) ==
    /\ Running
    /\ oscC.pc = "idle"
    /\ osc.numChannels > 0 /\ osc.sampleRate # 1
    /\ osc' = [osc EXCEPT !.tView = value]
    /\ oscC' = [oscC EXCEPT !.pc = "s_num"]
    /\ UNCHANGED <<oscP, sdc, call>>

\* recalculateNumSamples, line 156
AS_NumSamples ==
    /\ Running
    /\ oscC.pc = "s_num"
    /\ LET num == RoundToInt(osc.tView * osc.sampleRate, TViewPerSecond)
       IN /\ osc' = [osc EXCEPT !.numSamplesExpected = num]
          /\ Changes("numSamplesExpected", num # osc.numSamplesExpected)
    /\ oscC' = [oscC EXCEPT !.pc = "s_count"]
    /\ UNCHANGED <<sdc, call>>

\* recalculateNumSamples, line 157
AS_Count ==
    /\ Running
    /\ oscC.pc = "s_count"
    /\ osc' = [osc EXCEPT !.numSamplesInCurrentBlock = 0]
    /\ Changes("numSamplesInCurrentBlock", osc.numSamplesInCurrentBlock # 0)
    /\ oscC' = [oscC EXCEPT !.pc = "s_bytes"]
    /\ UNCHANGED <<sdc, call>>

\* recalculateMemory, lines 164-165
AS_Bytes ==
    /\ Running
    /\ oscC.pc = "s_bytes"
    /\ LET bytes == osc.numChannels * osc.numSamplesExpected * SizeofFloat
       IN /\ osc' = ResizeMemoryBlock(
                       [osc EXCEPT !.expectedNumBytesForMemoryBlock = bytes], bytes)
    /\ oscC' = [oscC EXCEPT !.pc = "s_offset", !.i = 0]
    /\ UNCHANGED <<oscP, sdc, call>>

\* recalculateMemory, lines 168-171, one turn of the loop
AS_Offset ==
    /\ Running
    /\ oscC.pc = "s_offset"
    /\ IF oscC.i < osc.numChannels
       THEN LET off == oscC.i * osc.numSamplesExpected
            IN /\ osc' = [osc EXCEPT !.channelOffset[oscC.i + 1] = off]
               /\ Changes("channelOffset", off # osc.channelOffset[oscC.i + 1])
               /\ oscC' = [oscC EXCEPT !.i = @ + 1]
       ELSE /\ oscC' = OscCIdle
            /\ UNCHANGED <<osc, oscP>>
    /\ UNCHANGED <<sdc, call>>

\* applySettingFromTarget (settingIsTriggered, value) -> enableTriggering (value)
AS_Triggered(value) ==
    /\ Running
    /\ oscC.pc = "idle"
    /\ osc.numChannels > 0 /\ osc.sampleRate # 1
    /\ osc' = [osc EXCEPT !.triggeringEnabled = value, !.triggerChannel = 0]
    /\ UNCHANGED <<oscP, oscC, sdc, call>>

---------------------------------------------------------------------------
(* The SpectralDataCollector under concurrent use: the realtime thread runs     *)
(* pushChannelsSamples statement by statement while the consumer thread runs    *)
(* setFFTOrder (applySettingFromTarget) statement by statement; the sink reads  *)
(* call by call. processingLock is a std::recursive_mutex.                      *)

VARIABLES
    processingLock,  \* SpectralDataCollector::processingLock: owner and depth
    sdcP,            \* the realtime thread: position and locals of its push
    sdcC             \* the consumer thread: position and locals of its setFFTOrder

sdcRaceVars == <<processingLock, sdcP, sdcC>>

LockFree == [owner |-> NoThread, count |-> 0]

RecTryLockMutant(l, t) == TRUE
\* std::recursive_mutex::try_lock by thread t succeeds; lock () returns once it would
RecTryLock(l, t) == l.owner \in {NoThread, t}

RecLocked(l, t) == [owner |-> t, count |-> l.count + 1]

\* std::recursive_mutex::unlock
RecUnlocked(l) == IF l.count = 1 THEN LockFree ELSE [l EXCEPT !.count = @ - 1]

\* s: bufferToPush (one channel's samples, the same in every channel), toCopy:
\* numSamplesToCopy. Not program state: refused (the last try_lock of line 72
\* failed)
SdcPIdle == [pc |-> "idle", s |-> <<>>, toCopy |-> 0, refused |-> FALSE]
\* Not program state: sets (the calls of setFFTOrder so far, at most MaxSetFFTOrder)
SdcCIdle == [pc |-> "idle", newFFTOrder |-> 0, sets |-> 0]

SdcRaceInit ==
    /\ processingLock = LockFree
    /\ sdcP = SdcPIdle
    /\ sdcC = SdcCIdle

\* setChannels, called once before the threads start
SS_SetChannels(n) ==
    /\ sdcP.pc = "idle" /\ sdcC.pc = "idle"
    /\ sdc.numChannels = 0
    /\ RecTryLock(processingLock, "cons")
    /\ sdc' = SpectralRecalculateMemory([sdc EXCEPT !.numChannels = n])
    /\ UNCHANGED <<sdcRaceVars, osc, call>>

\* the sink: startReading, finishedReading
SS_StartReading ==
    /\ sdc.readBufferLock = NoThread
    /\ sdc' = StartReading(sdc)
    /\ UNCHANGED <<sdcRaceVars, osc, call>>

SS_FinishedReading ==
    /\ sdc.readBufferLock = "cons"
    /\ sdc' = FinishedReading(sdc, SpectralZero)
    /\ UNCHANGED <<sdcRaceVars, osc, call>>

\* pushChannelsSamples, lines 69-70, with a buffer of numChannels channels
SP_Start(s) ==
    /\ sdcP.pc = "idle"
    /\ sdc.numChannels > 0 /\ sdc.fftOrder # 0
    /\ sdcP' = [SdcPIdle EXCEPT !.pc = "sp_try", !.s = s]
    /\ UNCHANGED <<processingLock, sdcC, sdc, osc, call>>

\* line 72: if (processingLock.try_lock ())
SP_TryLock ==
    /\ sdcP.pc = "sp_try"
    /\ IF RecTryLock(processingLock, "prod")
       THEN /\ processingLock' = RecLocked(processingLock, "prod")
            /\ sdcP' = [sdcP EXCEPT !.pc = "sp_num"]
       ELSE /\ processingLock' = processingLock
            /\ sdcP' = [SdcPIdle EXCEPT !.refused = TRUE]
    /\ UNCHANGED <<sdcC, sdc, osc, call>>

\* lines 74-75: numSamplesToCopy
SP_Num ==
    /\ sdcP.pc = "sp_num"
    /\ sdcP' = [sdcP EXCEPT !.pc = "sp_copy",
                            !.toCopy = Min(Len(sdcP.s), sdc.numSamplesExpected
                                                           - sdc.numSamplesInSampleBuffer)]
    /\ UNCHANGED <<processingLock, sdcC, sdc, osc, call>>

\* lines 77-85: the samples are copied into sampleBuffer
SP_Copy ==
    /\ sdcP.pc = "sp_copy"
    /\ sdc' = [SpectralCopy(sdc, SubSeq(sdcP.s, 1, sdcP.toCopy))
                  EXCEPT !.numSamplesInSampleBuffer = sdc.numSamplesInSampleBuffer]
    /\ sdcP' = [sdcP EXCEPT !.pc = "sp_add"]
    /\ UNCHANGED <<processingLock, sdcC, osc, call>>

\* line 86: numSamplesInSampleBuffer += numSamplesToCopy
SP_Add ==
    /\ sdcP.pc = "sp_add"
    /\ sdc' = [sdc EXCEPT !.numSamplesInSampleBuffer = @ + sdcP.toCopy]
    /\ sdcP' = [sdcP EXCEPT !.pc = "sp_full"]
    /\ UNCHANGED <<processingLock, sdcC, osc, call>>

\* lines 88-89: if (numSamplesInSampleBuffer >= numSamplesExpected) processFFT ();
\* processFFT takes the lock a second time (line 128) and gives it back (line 175)
SP_ProcessFFT ==
    /\ sdcP.pc = "sp_full"
    /\ sdc' = IF /\ sdc.numSamplesInSampleBuffer >= sdc.numSamplesExpected
                 /\ RecTryLock(processingLock, "prod")
              THEN ProcessFFT(sdc) ELSE sdc
    /\ sdcP' = [sdcP EXCEPT !.pc = "sp_unlock"]
    /\ UNCHANGED <<processingLock, sdcC, osc, call>>

\* line 91: processingLock.unlock ()
SP_Unlock ==
    /\ sdcP.pc = "sp_unlock"
    /\ processingLock' = RecUnlocked(processingLock)
    /\ sdcP' = SdcPIdle
    /\ UNCHANGED <<sdcC, sdc, osc, call>>

\* applySettingFromTarget (settingFFTOrder, value) -> setFFTOrder, line 44: the
\* lock_guard waits for the lock
SC_Lock(newFFTOrder) ==
    /\ sdcC.pc = "idle"
    /\ sdc.numChannels > 0
    /\ sdcC.sets < MaxSetFFTOrder
    /\ RecTryLock(processingLock, "cons")
    /\ processingLock' = RecLocked(processingLock, "cons")
    /\ sdcC' = [pc |-> "sc_order", newFFTOrder |-> newFFTOrder, sets |-> sdcC.sets + 1]
    /\ UNCHANGED <<sdcP, sdc, osc, call>>

\* lines 45-46: fftOrder, numSamplesExpected
SC_Order ==
    /\ sdcC.pc = "sc_order"
    /\ sdc' = [sdc EXCEPT !.fftOrder = sdcC.newFFTOrder,
                          !.numSamplesExpected = 2 ^ sdcC.newFFTOrder]
    /\ sdcC' = [sdcC EXCEPT !.pc = "sc_fft"]
    /\ UNCHANGED <<processingLock, sdcP, osc, call>>

\* lines 47-48: fft.reset, windowingFunction.reset
SC_FFT ==
    /\ sdcC.pc = "sc_fft"
    /\ sdc' = [sdc EXCEPT !.windowingFunction = sdc.numSamplesExpected]
    /\ sdcC' = [sdcC EXCEPT !.pc = "sc_reclock"]
    /\ UNCHANGED <<processingLock, sdcP, osc, call>>

\* recalculateMemory, line 111: the lock_guard takes the lock a second time
SC_RecLock ==
    /\ sdcC.pc = "sc_reclock"
    /\ RecTryLock(processingLock, "cons")
    /\ processingLock' = RecLocked(processingLock, "cons")
    /\ sdcC' = [sdcC EXCEPT !.pc = "sc_memory"]
    /\ UNCHANGED <<sdcP, sdc, osc, call>>

\* recalculateMemory, lines 112-123
SC_Memory ==
    /\ sdcC.pc = "sc_memory"
    /\ sdc' = SpectralRecalculateMemory(sdc)
    /\ sdcC' = [sdcC EXCEPT !.pc = "sc_recunlock"]
    /\ UNCHANGED <<processingLock, sdcP, osc, call>>

\* recalculateMemory, line 124, and setFFTOrder, line 52: the lock_guards end
SC_Unlock ==
    /\ sdcC.pc \in {"sc_recunlock", "sc_unlock"}
    /\ processingLock' = RecUnlocked(processingLock)
    /\ sdcC' = IF sdcC.pc = "sc_recunlock" THEN [sdcC EXCEPT !.pc = "sc_unlock"]
               ELSE [SdcCIdle EXCEPT !.sets = sdcC.sets]
    /\ UNCHANGED <<sdcP, sdc, osc, call>>

---------------------------------------------------------------------------
(* LocalDataSinkAndSource: the registry that connects each VisualizationTarget *)
(* with the DataCollector of the same identifier, call by call                 *)

\* the targets and collectors of the application and their identifiers: t3 has
\* the identifier of t1, c3 an identifier of no target
RegTargets == {"t1", "t2", "t3"}
RegCollectors == {"c1", "c2", "c3"}
IdOf(x) == IF x \in {"t1", "t3", "c1"} THEN "a" ELSE IF x \in {"t2", "c2"} THEN "b" ELSE "z"
RoutingCalls == {"startReading", "finishedReading", "applySettingToCollector"}
Null == "nullptr"

VARIABLES
    lds,      \* targetIdentifiers, targets, collectors; targetIdx of every target,
              \* sinkIdx and sink (is it set) of every collector
    regCall   \* the last call: what it was, on what, its result, where it was routed

regVars == <<lds, regCall>>

\* order: have the calls so far come in the documented order (targets, then
\* finishedRegisteringTargets, then collectors); finished: has
\* finishedRegisteringTargets been called
RegInit ==
    /\ lds = [targetIdentifiers |-> <<>>, targets |-> <<>>, collectors |-> <<>>,
              targetIdx |-> [t \in RegTargets |-> -1],
              sinkIdx |-> [c \in RegCollectors |-> -1],
              sink |-> [c \in RegCollectors |-> FALSE]]
    /\ regCall = [op |-> "constructed", on |-> Null, ok |-> TRUE, to |-> Null,
                  order |-> "targets", finished |-> FALSE]

\* juce::StringArray::indexOf: the index of the first occurrence, -1 if there is none
IndexOf(a, x) ==
    IF \E i \in 1 .. Len(a) : a[i] = x
    THEN (CHOOSE i \in 1 .. Len(a) : a[i] = x /\ \A j \in 1 .. (i - 1) : a[j] # x) - 1
    ELSE -1

\* juce::Array::resize: cut, or filled up with default values
ArrayResize(a, n) == [i \in 1 .. n |-> IF i <= Len(a) THEN a[i] ELSE Null]

ArraySetMutant(a, i, x) == IF i < 0 THEN a ELSE Append(a, x)
\* juce::Array::set: replaces the element at a valid index, appends at an index
\* beyond the end, does nothing at a negative index
ArraySet(a, i, x) ==
    IF i < 0 THEN a
    ELSE IF i < Len(a) THEN [a EXCEPT ![i + 1] = x]
    ELSE Append(a, x)

\* juce::Array::operator[]: a default value at an index out of range
ArrayGet(a, i) == IF i >= 0 /\ i < Len(a) THEN a[i + 1] ELSE Null

\* LocalDataSinkAndSource::registerVisualizationTarget
RegisterVisualizationTarget(t) ==
    /\ Len(lds.targetIdentifiers) < MaxTargets
    /\ LET ids == Append(lds.targetIdentifiers, IdOf(t))
       IN lds' = [lds EXCEPT !.targetIdentifiers = ids,
                             !.targetIdx[t] = IndexOf(ids, IdOf(t)),
                             !.targets = Append(@, t)]
    /\ regCall' = [op |-> "registerVisualizationTarget", on |-> t, ok |-> TRUE,
                   to |-> Null,
                   order |-> IF regCall.order = "targets" THEN "targets" ELSE "broken",
                   finished |-> regCall.finished]

FinishedRegisteringTargetsMutant ==
    /\ lds' = lds
    /\ regCall' = [op |-> "finishedRegisteringTargets", on |-> Null, ok |-> TRUE,
                   to |-> Null,
                   order |-> IF regCall.order = "broken" THEN "broken" ELSE "collectors",
                   finished |-> TRUE]
\* LocalDataSinkAndSource::finishedRegisteringTargets
FinishedRegisteringTargets ==
    /\ lds' = [lds EXCEPT !.collectors = ArrayResize(@, Len(lds.targetIdentifiers))]
    /\ regCall' = [op |-> "finishedRegisteringTargets", on |-> Null, ok |-> TRUE,
                   to |-> Null,
                   order |-> IF regCall.order = "broken" THEN "broken" ELSE "collectors",
                   finished |-> TRUE]

RegisterDataCollectorMutant(c) ==
    LET correspondingTargetIdx == IndexOf(lds.targetIdentifiers, IdOf(c))
    IN /\ lds' = [lds EXCEPT !.sinkIdx[c] = correspondingTargetIdx,
                             !.sink[c] = TRUE,
                             !.collectors = ArraySet(@, correspondingTargetIdx, c)]
       /\ regCall' = [op |-> "registerDataCollector", on |-> c,
                      ok |-> correspondingTargetIdx # -1, to |-> Null,
                      order |-> IF regCall.order = "collectors" THEN "collectors"
                                ELSE "broken",
                      finished |-> regCall.finished]
\* LocalDataSinkAndSource::registerDataCollector; ok: the Result returned
RegisterDataCollector(c) ==
    LET correspondingTargetIdx == IndexOf(lds.targetIdentifiers, IdOf(c))
    IN /\ lds' = IF correspondingTargetIdx = -1 THEN lds
                 ELSE [lds EXCEPT !.sinkIdx[c] = correspondingTargetIdx,
                                  !.sink[c] = TRUE,
                                  !.collectors = ArraySet(@, correspondingTargetIdx, c)]
       /\ regCall' = [op |-> "registerDataCollector", on |-> c,
                      ok |-> correspondingTargetIdx # -1, to |-> Null,
                      order |-> IF regCall.order = "collectors" THEN "collectors"
                                ELSE "broken",
                      finished |-> regCall.finished]

\* LocalDataSinkAndSource::startReading, finishedReading, applySettingToCollector,
\* called by a registered target: collectors[target.targetIdx]->...; to: the
\* collector the call goes to, Null: the null pointer is dereferenced
RouteToCollector(op, t) ==
    /\ lds.targetIdx[t] # -1
    /\ regCall' = [op |-> op, on |-> t, ok |-> TRUE,
                   to |-> ArrayGet(lds.collectors, lds.targetIdx[t]),
                   order |-> regCall.order, finished |-> regCall.finished]
    /\ lds' = lds

\* the updateGUI... functions, called by every setter of a collector:
\* sink->applySettingToTarget (*this, ...), and with a sink
\* LocalDataSinkAndSource::applySettingToTarget: targets[dataCollector.sinkIdx]->...;
\* to: the target the call goes to; ok: the sink pointer is not null
UpdateGUI(c) ==
    /\ regCall' = [op |-> "applySettingToTarget", on |-> c, ok |-> lds.sink[c],
                   to |-> IF lds.sink[c] THEN ArrayGet(lds.targets, lds.sinkIdx[c])
                          ELSE Null,
                   order |-> regCall.order, finished |-> regCall.finished]
    /\ lds' = lds

---------------------------------------------------------------------------
(* The render pass of OscilloscopeComponent and SpectralAnalyzerComponent *)

\* the two components have the same beginFrame / endFrame; the component's
\* points per line are numSamples or numFFTBins
PlotKinds == {"OscilloscopeComponent", "SpectralAnalyzerComponent"}
PlotChannelCounts == {1}
PlotPoints(kind) == IF kind = "OscilloscopeComponent" THEN {1, 2} ELSE {2, 4}
PlotBlockSizes == {4, 8, 16}

VARIABLES
    plot,     \* the component: its members and the render thread's position
    plotSrc   \* the collector behind the component's dataSource

plotVars == <<plot, plotSrc>>

\* pass: the calls of the pass in progress or, between passes, of the last pass
PlotInit ==
    /\ plot \in {[kind |-> k, pc |-> "idle", dataSource |-> FALSE,
                  lastBuffer |-> FALSE, numChannels |-> 0, numPoints |-> 0,
                  pass |-> [started |-> 0, finished |-> 0, mismatch |-> FALSE,
                            finishedIn |-> "none"]] : k \in PlotKinds}
    /\ plotSrc = [readBufferLock |-> "none", writeBufferLock |-> "none",
                  readSize |-> 0, writeSize |-> 0, expectedBlockSize |-> 0,
                  readerShouldSwapBlocks |-> FALSE, unlockedUnheld |-> FALSE]

\* an unlock of a mutex the thread does not hold is undefined: nothing follows
PlotRunning == ~plotSrc.unlockedUnheld

PlotSetDataSource ==
    /\ PlotRunning
    /\ ~plot.dataSource
    /\ plot' = [plot EXCEPT !.dataSource = TRUE]
    /\ plotSrc' = plotSrc

PlotApplySettingFromCollector ==
    /\ PlotRunning
    /\ \/ \E n \in PlotChannelCounts : plot' = [plot EXCEPT !.numChannels = n]
       \/ \E n \in PlotPoints(plot.kind) : plot' = [plot EXCEPT !.numPoints = n]
    /\ plot' # plot
    /\ plotSrc' = plotSrc

PlotResizeMemoryBlock ==
    /\ PlotRunning
    /\ \E s \in PlotBlockSizes :
          /\ s # plotSrc.expectedBlockSize
          /\ plotSrc' = [plotSrc EXCEPT !.expectedBlockSize = s]
    /\ plot' = plot

PlotStartWriting ==
    /\ PlotRunning
    /\ plotSrc.writeBufferLock = "none"
    /\ plotSrc' = [plotSrc EXCEPT !.writeBufferLock = "prod"]
    /\ plot' = plot

PlotFinishedWriting ==
    /\ PlotRunning
    /\ plotSrc.writeBufferLock = "prod"
    /\ ~plotSrc.readerShouldSwapBlocks
    /\ plotSrc' = IF plotSrc.readBufferLock = "none"
                  THEN [plotSrc EXCEPT !.readSize = plotSrc.writeSize,
                                       !.writeSize = plotSrc.readSize,
                                       !.writeBufferLock = "none"]
                  ELSE [plotSrc EXCEPT !.readerShouldSwapBlocks = TRUE]
    /\ plot' = plot

\* DataCollector::finishedReading called by the render thread
PlotSrcFinishedReading(s) ==
    IF s.readBufferLock # "cons"
    THEN [s EXCEPT !.unlockedUnheld = TRUE]
    ELSE [s EXCEPT !.readSize = IF s.readerShouldSwapBlocks THEN s.writeSize
                                ELSE s.expectedBlockSize,
                   !.writeSize = IF s.readerShouldSwapBlocks
                                 THEN s.expectedBlockSize ELSE s.writeSize,
                   !.writeBufferLock = IF s.readerShouldSwapBlocks THEN "none"
                                       ELSE s.writeBufferLock,
                   !.readerShouldSwapBlocks = FALSE,
                   !.readBufferLock = "none"]

PlotCounted(p, where) ==
    [p EXCEPT !.pass.finished = p.pass.finished + 1, !.pass.finishedIn = where]

\* Plot2D::renderOpenGL with updatesAtFramerate reaches beginFrame
RP_Render ==
    /\ PlotRunning
    /\ plot.pc = "idle"
    /\ plot' = [plot EXCEPT !.pc = "beginFrame",
                            !.pass = [started |-> 0, finished |-> 0,
                                      mismatch |-> FALSE, finishedIn |-> "none"]]
    /\ plotSrc' = plotSrc

RP_BeginFrame ==
    /\ PlotRunning
    /\ plot.pc = "beginFrame"
    /\ IF plot.dataSource
       THEN /\ plotSrc.readBufferLock = "none"
            /\ plotSrc' = [plotSrc EXCEPT !.readBufferLock = "cons"]
            /\ plot' = [plot EXCEPT !.lastBuffer = TRUE, !.pc = "compare",
                                    !.pass.started = plot.pass.started + 1]
       ELSE /\ plot' = [plot EXCEPT !.pc = "lines"]
            /\ plotSrc' = plotSrc

RP_CompareMutant ==
    /\ PlotRunning
    /\ plot.pc = "compare"
    /\ IF plotSrc.readSize # plot.numPoints * plot.numChannels * SizeofFloat
       THEN plot' = [plot EXCEPT !.pc = "giveBack", !.pass.mismatch = TRUE]
       ELSE plot' = [plot EXCEPT !.pc = "lines"]
    /\ plotSrc' = plotSrc
RP_Compare ==
    /\ PlotRunning
    /\ plot.pc = "compare"
    /\ IF plotSrc.readSize # plot.numPoints * plot.numChannels * SizeofFloat
       THEN plot' = [plot EXCEPT !.lastBuffer = FALSE, !.pc = "giveBack",
                                 !.pass.mismatch = TRUE]
       ELSE plot' = [plot EXCEPT !.pc = "lines"]
    /\ plotSrc' = plotSrc

RP_GiveBack ==
    /\ PlotRunning
    /\ plot.pc = "giveBack"
    /\ plotSrc' = PlotSrcFinishedReading(plotSrc)
    /\ plot' = [PlotCounted(plot, "beginFrame") EXCEPT !.pc = "lines"]

\* getBufferForLine for every line: the block is only read
RP_Lines ==
    /\ PlotRunning
    /\ plot.pc = "lines"
    /\ plot' = [plot EXCEPT !.pc = "endFrame"]
    /\ plotSrc' = plotSrc

RP_EndFrame ==
    /\ PlotRunning
    /\ plot.pc = "endFrame"
    /\ IF plot.lastBuffer
       THEN /\ plotSrc' = PlotSrcFinishedReading(plotSrc)
            /\ plot' = [PlotCounted(plot, "endFrame") EXCEPT !.pc = "idle"]
       ELSE /\ plot' = [plot EXCEPT !.pc = "idle"]
            /\ plotSrc' = plotSrc

---------------------------------------------------------------------------
(* The SharedOpenGLContext: a thread adding and removing rendering targets,
   the render thread running renderOpenGL *)

GLTargets == {"plot1", "plot2"}

VARIABLES
    glc,      \* the SharedOpenGLContext's members and what its jobs and passes did
    glT       \* the position of the adding thread and of the render thread

glVars == <<glc, glT>>

\* queued, ran: every job queued so far and every job run so far, in order
\* created: the targets whose newOpenGLContextCreated was called
\* rendered: the targets whose renderOpenGL was called
\* early: the targets whose first renderOpenGL came before newOpenGLContextCreated
GLInit ==
    /\ glc = [topLevelComponent |-> FALSE, executeInRenderCallback |-> <<>>,
              renderingTargets |-> <<>>, queued |-> <<>>, ran |-> <<>>,
              created |-> {}, rendered |-> {}, early |-> {}, added |-> {}]
    /\ glT = [add |-> [pc |-> "idle", target |-> "none"], render |-> "idle"]

GLJob(kind, t) == [call |-> kind, target |-> t]

SetTopLevelParentComponent ==
    /\ ~glc.topLevelComponent
    /\ glc' = [glc EXCEPT !.topLevelComponent = TRUE]
    /\ glT' = glT

\* executeOnGLThread: under executeInRenderCallbackLock, which the render thread
\* holds for the whole of its first block; every block under a lock is one step
ExecuteOnGLThread(c, job) ==
    [c EXCEPT !.executeInRenderCallback = Append(c.executeInRenderCallback, job),
              !.queued = Append(c.queued, job)]

\* addRenderingTarget, first statement: the job is queued
AddRenderingTarget_Execute(t) ==
    /\ glT.add.pc = "idle"
    /\ t \notin glc.added
    /\ glc' = [ExecuteOnGLThread(glc, GLJob("newOpenGLContextCreated", t))
                 EXCEPT !.added = glc.added \cup {t}]
    /\ glT' = [glT EXCEPT !.add = [pc |-> "add", target |-> t]]

\* addRenderingTarget, second statement: under renderingTargetsLock
AddRenderingTarget_Add ==
    /\ glT.add.pc = "add"
    /\ glc' = [glc EXCEPT !.renderingTargets = Append(glc.renderingTargets,
                                                      glT.add.target)]
    /\ glT' = [glT EXCEPT !.add = [pc |-> "idle", target |-> "none"]]

RemoveFirstMatchingValue(s, t) ==
    LET idx == {i \in 1 .. Len(s) : s[i] = t}
        first == CHOOSE i \in idx : \A j \in idx : i <= j
    IN  IF idx = {} THEN s
        ELSE [i \in 1 .. Len(s) - 1 |-> IF i < first THEN s[i] ELSE s[i + 1]]

RemoveRenderingTarget_Execute(t) ==
    /\ glT.add.pc = "idle"
    /\ \E i \in 1 .. Len(glc.renderingTargets) : glc.renderingTargets[i] = t
    /\ glc' = ExecuteOnGLThread(glc, GLJob("openGLContextClosing", t))
    /\ glT' = [glT EXCEPT !.add = [pc |-> "remove", target |-> t]]

RemoveRenderingTarget_Remove ==
    /\ glT.add.pc = "remove"
    /\ glc' = [glc EXCEPT !.renderingTargets =
                 RemoveFirstMatchingValue(glc.renderingTargets, glT.add.target)]
    /\ glT' = [glT EXCEPT !.add = [pc |-> "idle", target |-> "none"]]

\* renderOpenGL returns at once without a top level component
RenderOpenGL_Begin ==
    /\ glT.render = "idle"
    /\ glc.topLevelComponent
    /\ glT' = [glT EXCEPT !.render = "jobs"]
    /\ glc' = glc

\* the first block: every pending job is run, the queue is cleared
RenderOpenGL_Jobs ==
    /\ glT.render = "jobs"
    /\ glc' = [glc EXCEPT
                 !.ran = glc.ran \o glc.executeInRenderCallback,
                 !.created = glc.created \cup
                     {glc.executeInRenderCallback[i].target :
                        i \in {j \in 1 .. Len(glc.executeInRenderCallback) :
                                 glc.executeInRenderCallback[j].call
                                    = "newOpenGLContextCreated"}},
                 !.executeInRenderCallback = <<>>]
    /\ glT' = [glT EXCEPT !.render = "targets"]

\* the second block, under renderingTargetsLock: renderOpenGL of every visible
\* target; between the blocks the render thread holds no lock
RenderOpenGL_Targets ==
    /\ glT.render = "targets"
    /\ \E visible \in SUBSET {glc.renderingTargets[i] :
                                i \in 1 .. Len(glc.renderingTargets)} :
          glc' = [glc EXCEPT
                    !.rendered = glc.rendered \cup visible,
                    !.early = glc.early \cup
                        ((visible \ glc.rendered) \ glc.created)]
    /\ glT' = [glT EXCEPT !.render = "idle"]

---------------------------------------------------------------------------
(* Specifications of the SwappableBuffer *)

\* one producer calling writeNewBuffer, one consumer
NextSB ==
    \/ W_TryLock("p1", MaxWrites) /\ UNCHANGED <<colVars, pushVars, oscRaceVars, sdcRaceVars, regVars, plotVars, glVars>>
    \/ W_ClearFlag("p1") /\ UNCHANGED <<colVars, pushVars, oscRaceVars, sdcRaceVars, regVars, plotVars, glVars>>
    \/ W_Memcpy("p1") /\ UNCHANGED <<colVars, pushVars, oscRaceVars, sdcRaceVars, regVars, plotVars, glVars>>
    \/ W_Fill("p1") /\ UNCHANGED <<colVars, pushVars, oscRaceVars, sdcRaceVars, regVars, plotVars, glVars>>
    \/ W_TryRead("p1") /\ UNCHANGED <<colVars, pushVars, oscRaceVars, sdcRaceVars, regVars, plotVars, glVars>>
    \/ W_Swap("p1") /\ UNCHANGED <<colVars, pushVars, oscRaceVars, sdcRaceVars, regVars, plotVars, glVars>>
    \/ W_UnlockRead("p1") /\ UNCHANGED <<colVars, pushVars, oscRaceVars, sdcRaceVars, regVars, plotVars, glVars>>
    \/ W_SetFlag("p1") /\ UNCHANGED <<colVars, pushVars, oscRaceVars, sdcRaceVars, regVars, plotVars, glVars>>
    \/ W_Cap("p1") /\ UNCHANGED <<colVars, pushVars, oscRaceVars, sdcRaceVars, regVars, plotVars, glVars>>
    \/ W_Unlock("p1") /\ UNCHANGED <<colVars, pushVars, oscRaceVars, sdcRaceVars, regVars, plotVars, glVars>>
    \/ R_Get("c1") /\ UNCHANGED <<colVars, pushVars, oscRaceVars, sdcRaceVars, regVars, plotVars, glVars>>
    \/ R_Check("c1") /\ UNCHANGED <<colVars, pushVars, oscRaceVars, sdcRaceVars, regVars, plotVars, glVars>>
    \/ R_Swap("c1") /\ UNCHANGED <<colVars, pushVars, oscRaceVars, sdcRaceVars, regVars, plotVars, glVars>>
    \/ R_Unlock("c1") /\ UNCHANGED <<colVars, pushVars, oscRaceVars, sdcRaceVars, regVars, plotVars, glVars>>

\* one producer calling appendToWriteBuffer, one consumer
NextSBA ==
    \/ A_TryLock("p1", MaxWrites) /\ UNCHANGED <<colVars, pushVars, oscRaceVars, sdcRaceVars, regVars, plotVars, glVars>>
    \/ A_ClearFlag("p1") /\ UNCHANGED <<colVars, pushVars, oscRaceVars, sdcRaceVars, regVars, plotVars, glVars>>
    \/ A_Compute("p1") /\ UNCHANGED <<colVars, pushVars, oscRaceVars, sdcRaceVars, regVars, plotVars, glVars>>
    \/ A_Memcpy("p1") /\ UNCHANGED <<colVars, pushVars, oscRaceVars, sdcRaceVars, regVars, plotVars, glVars>>
    \/ A_DecCap("p1") /\ UNCHANGED <<colVars, pushVars, oscRaceVars, sdcRaceVars, regVars, plotVars, glVars>>
    \/ A_TryRead("p1") /\ UNCHANGED <<colVars, pushVars, oscRaceVars, sdcRaceVars, regVars, plotVars, glVars>>
    \/ A_Swap("p1") /\ UNCHANGED <<colVars, pushVars, oscRaceVars, sdcRaceVars, regVars, plotVars, glVars>>
    \/ A_UnlockRead("p1") /\ UNCHANGED <<colVars, pushVars, oscRaceVars, sdcRaceVars, regVars, plotVars, glVars>>
    \/ A_SetFlag("p1") /\ UNCHANGED <<colVars, pushVars, oscRaceVars, sdcRaceVars, regVars, plotVars, glVars>>
    \/ A_Cap("p1") /\ UNCHANGED <<colVars, pushVars, oscRaceVars, sdcRaceVars, regVars, plotVars, glVars>>
    \/ A_Unlock("p1") /\ UNCHANGED <<colVars, pushVars, oscRaceVars, sdcRaceVars, regVars, plotVars, glVars>>
    \/ R_Get("c1") /\ UNCHANGED <<colVars, pushVars, oscRaceVars, sdcRaceVars, regVars, plotVars, glVars>>
    \/ R_Check("c1") /\ UNCHANGED <<colVars, pushVars, oscRaceVars, sdcRaceVars, regVars, plotVars, glVars>>
    \/ R_Swap("c1") /\ UNCHANGED <<colVars, pushVars, oscRaceVars, sdcRaceVars, regVars, plotVars, glVars>>
    \/ R_Unlock("c1") /\ UNCHANGED <<colVars, pushVars, oscRaceVars, sdcRaceVars, regVars, plotVars, glVars>>

\* two threads calling writeNewBuffer and appendToWriteBuffer, two consumers
NextSB2 ==
    \/ \E p \in Producers : W_TryLock(p, MaxWrites2) /\ UNCHANGED <<colVars, pushVars, oscRaceVars, sdcRaceVars, regVars, plotVars, glVars>>
    \/ \E p \in Producers : W_ClearFlag(p) /\ UNCHANGED <<colVars, pushVars, oscRaceVars, sdcRaceVars, regVars, plotVars, glVars>>
    \/ \E p \in Producers : W_Memcpy(p) /\ UNCHANGED <<colVars, pushVars, oscRaceVars, sdcRaceVars, regVars, plotVars, glVars>>
    \/ \E p \in Producers : W_Fill(p) /\ UNCHANGED <<colVars, pushVars, oscRaceVars, sdcRaceVars, regVars, plotVars, glVars>>
    \/ \E p \in Producers : W_TryRead(p) /\ UNCHANGED <<colVars, pushVars, oscRaceVars, sdcRaceVars, regVars, plotVars, glVars>>
    \/ \E p \in Producers : W_Swap(p) /\ UNCHANGED <<colVars, pushVars, oscRaceVars, sdcRaceVars, regVars, plotVars, glVars>>
    \/ \E p \in Producers : W_UnlockRead(p) /\ UNCHANGED <<colVars, pushVars, oscRaceVars, sdcRaceVars, regVars, plotVars, glVars>>
    \/ \E p \in Producers : W_SetFlag(p) /\ UNCHANGED <<colVars, pushVars, oscRaceVars, sdcRaceVars, regVars, plotVars, glVars>>
    \/ \E p \in Producers : W_Cap(p) /\ UNCHANGED <<colVars, pushVars, oscRaceVars, sdcRaceVars, regVars, plotVars, glVars>>
    \/ \E p \in Producers : W_Unlock(p) /\ UNCHANGED <<colVars, pushVars, oscRaceVars, sdcRaceVars, regVars, plotVars, glVars>>
    \/ \E p \in Producers : A_TryLock(p, MaxWrites2) /\ UNCHANGED <<colVars, pushVars, oscRaceVars, sdcRaceVars, regVars, plotVars, glVars>>
    \/ \E p \in Producers : A_ClearFlag(p) /\ UNCHANGED <<colVars, pushVars, oscRaceVars, sdcRaceVars, regVars, plotVars, glVars>>
    \/ \E p \in Producers : A_Compute(p) /\ UNCHANGED <<colVars, pushVars, oscRaceVars, sdcRaceVars, regVars, plotVars, glVars>>
    \/ \E p \in Producers : A_Memcpy(p) /\ UNCHANGED <<colVars, pushVars, oscRaceVars, sdcRaceVars, regVars, plotVars, glVars>>
    \/ \E p \in Producers : A_DecCap(p) /\ UNCHANGED <<colVars, pushVars, oscRaceVars, sdcRaceVars, regVars, plotVars, glVars>>
    \/ \E p \in Producers : A_TryRead(p) /\ UNCHANGED <<colVars, pushVars, oscRaceVars, sdcRaceVars, regVars, plotVars, glVars>>
    \/ \E p \in Producers : A_Swap(p) /\ UNCHANGED <<colVars, pushVars, oscRaceVars, sdcRaceVars, regVars, plotVars, glVars>>
    \/ \E p \in Producers : A_UnlockRead(p) /\ UNCHANGED <<colVars, pushVars, oscRaceVars, sdcRaceVars, regVars, plotVars, glVars>>
    \/ \E p \in Producers : A_SetFlag(p) /\ UNCHANGED <<colVars, pushVars, oscRaceVars, sdcRaceVars, regVars, plotVars, glVars>>
    \/ \E p \in Producers : A_Cap(p) /\ UNCHANGED <<colVars, pushVars, oscRaceVars, sdcRaceVars, regVars, plotVars, glVars>>
    \/ \E p \in Producers : A_Unlock(p) /\ UNCHANGED <<colVars, pushVars, oscRaceVars, sdcRaceVars, regVars, plotVars, glVars>>
    \/ \E c \in Consumers : R_Get(c) /\ UNCHANGED <<colVars, pushVars, oscRaceVars, sdcRaceVars, regVars, plotVars, glVars>>
    \/ \E c \in Consumers : R_Check(c) /\ UNCHANGED <<colVars, pushVars, oscRaceVars, sdcRaceVars, regVars, plotVars, glVars>>
    \/ \E c \in Consumers : R_Swap(c) /\ UNCHANGED <<colVars, pushVars, oscRaceVars, sdcRaceVars, regVars, plotVars, glVars>>
    \/ \E c \in Consumers : R_Unlock(c) /\ UNCHANGED <<colVars, pushVars, oscRaceVars, sdcRaceVars, regVars, plotVars, glVars>>

\* the realtime thread pushing, the GUI thread reading
NextCol ==
    \/ P_Start("prod") /\ UNCHANGED <<sbVars, pushVars, oscRaceVars, sdcRaceVars, regVars, plotVars, glVars>>
    \/ P_Body("prod") /\ UNCHANGED <<sbVars, pushVars, oscRaceVars, sdcRaceVars, regVars, plotVars, glVars>>
    \/ FW_TryRead("prod") /\ UNCHANGED <<sbVars, pushVars, oscRaceVars, sdcRaceVars, regVars, plotVars, glVars>>
    \/ FW_Swap("prod") /\ UNCHANGED <<sbVars, pushVars, oscRaceVars, sdcRaceVars, regVars, plotVars, glVars>>
    \/ FW_UnlockW("prod") /\ UNCHANGED <<sbVars, pushVars, oscRaceVars, sdcRaceVars, regVars, plotVars, glVars>>
    \/ FW_UnlockR("prod") /\ UNCHANGED <<sbVars, pushVars, oscRaceVars, sdcRaceVars, regVars, plotVars, glVars>>
    \/ FW_Ready("prod") /\ UNCHANGED <<sbVars, pushVars, oscRaceVars, sdcRaceVars, regVars, plotVars, glVars>>
    \/ FW_SetFlag("prod") /\ UNCHANGED <<sbVars, pushVars, oscRaceVars, sdcRaceVars, regVars, plotVars, glVars>>
    \/ P_Reset("prod") /\ UNCHANGED <<sbVars, pushVars, oscRaceVars, sdcRaceVars, regVars, plotVars, glVars>>
    \/ ET_Set("cons") /\ UNCHANGED <<sbVars, pushVars, oscRaceVars, sdcRaceVars, regVars, plotVars, glVars>>
    \/ SR_Lock("cons") /\ UNCHANGED <<sbVars, pushVars, oscRaceVars, sdcRaceVars, regVars, plotVars, glVars>>
    \/ FR_Resize("cons") /\ UNCHANGED <<sbVars, pushVars, oscRaceVars, sdcRaceVars, regVars, plotVars, glVars>>
    \/ FR_Check("cons") /\ UNCHANGED <<sbVars, pushVars, oscRaceVars, sdcRaceVars, regVars, plotVars, glVars>>
    \/ FR_Swap("cons") /\ UNCHANGED <<sbVars, pushVars, oscRaceVars, sdcRaceVars, regVars, plotVars, glVars>>
    \/ FR_UnlockW("cons") /\ UNCHANGED <<sbVars, pushVars, oscRaceVars, sdcRaceVars, regVars, plotVars, glVars>>
    \/ FR_Clear("cons") /\ UNCHANGED <<sbVars, pushVars, oscRaceVars, sdcRaceVars, regVars, plotVars, glVars>>
    \/ FR_Ready("cons") /\ UNCHANGED <<sbVars, pushVars, oscRaceVars, sdcRaceVars, regVars, plotVars, glVars>>
    \/ FR_UnlockR("cons") /\ UNCHANGED <<sbVars, pushVars, oscRaceVars, sdcRaceVars, regVars, plotVars, glVars>>

---------------------------------------------------------------------------
(* Specification of the collectors call by call. The two collectors share no     *)
(* state; a behaviour drives one of them while the other one stays as            *)
(* constructed.                                                                  *)

PushInit ==
    /\ osc = OscConstructed
    /\ sdc = SpectralConstructed
    /\ call = [coll |-> "none", op |-> "constructed", mismatch |-> FALSE,
               inProgress |-> FALSE, finished |-> FALSE,
               chans |-> 0, buffer |-> <<>>, transformed |-> FALSE,
               trigFrame |-> FALSE, orders |-> 0,
               streamed |-> -1, ffts |-> 0, pubs |-> 0]

OscAlone == sdc = SpectralConstructed
SpectralAlone == osc = OscConstructed

NextPush ==
    \/ \E n \in ChannelCounts :
          OscAlone /\ OscSetChannels(n) /\ UNCHANGED <<sbVars, colVars, oscRaceVars, sdcRaceVars, regVars, plotVars, glVars>>
    \/ \E t \in TimesViewed :
          OscAlone /\ OscSetTimeViewed(t) /\ UNCHANGED <<sbVars, colVars, oscRaceVars, sdcRaceVars, regVars, plotVars, glVars>>
    \/ \E rate \in SampleRates :
          OscAlone /\ OscSetSampleRate(rate) /\ UNCHANGED <<sbVars, colVars, oscRaceVars, sdcRaceVars, regVars, plotVars, glVars>>
    \/ \E b \in BOOLEAN :
          OscAlone /\ OscEnableTriggering(b) /\ UNCHANGED <<sbVars, colVars, oscRaceVars, sdcRaceVars, regVars, plotVars, glVars>>
    \/ \E chans \in PushedChannels(osc), s \in PushedBuffers(OscSamples) :
          OscAlone /\ OscPushChannelsSamples(chans, s) /\ UNCHANGED <<sbVars, colVars, oscRaceVars, sdcRaceVars, regVars, plotVars, glVars>>
    \/ OscAlone /\ OscStartReading /\ UNCHANGED <<sbVars, colVars, oscRaceVars, sdcRaceVars, regVars, plotVars, glVars>>
    \/ OscAlone /\ OscFinishedReading /\ UNCHANGED <<sbVars, colVars, oscRaceVars, sdcRaceVars, regVars, plotVars, glVars>>
    \/ \E n \in ChannelCounts :
          SpectralAlone /\ SpectralSetChannels(n) /\ UNCHANGED <<sbVars, colVars, oscRaceVars, sdcRaceVars, regVars, plotVars, glVars>>
    \/ \E o \in FFTOrders :
          SpectralAlone /\ SpectralSetFFTOrder(o) /\ UNCHANGED <<sbVars, colVars, oscRaceVars, sdcRaceVars, regVars, plotVars, glVars>>
    \/ \E chans \in PushedChannels(sdc), s \in PushedBuffers(SpectralSamples) :
          SpectralAlone /\ SpectralPushChannelsSamples(chans, s)
                        /\ UNCHANGED <<sbVars, colVars, oscRaceVars, sdcRaceVars, regVars, plotVars, glVars>>
    \/ SpectralAlone /\ SpectralStartReading /\ UNCHANGED <<sbVars, colVars, oscRaceVars, sdcRaceVars, regVars, plotVars, glVars>>
    \/ SpectralAlone /\ SpectralFinishedReading /\ UNCHANGED <<sbVars, colVars, oscRaceVars, sdcRaceVars, regVars, plotVars, glVars>>

\* the SpectralDataCollector with setFFTOrder changing the FFT length between
\* the pushes
NextReconf ==
    \/ \E n \in ChannelCounts :
          SpectralAlone /\ SpectralSetChannels(n) /\ UNCHANGED <<sbVars, colVars, oscRaceVars, sdcRaceVars, regVars, plotVars, glVars>>
    \/ \E o \in ChangedFFTOrders :
          /\ SpectralAlone /\ call.orders < MaxSetFFTOrder
          /\ SpectralSetFFTOrder(o) /\ UNCHANGED <<sbVars, colVars, oscRaceVars, sdcRaceVars, regVars, plotVars, glVars>>
    \/ \E chans \in PushedChannels(sdc), s \in LongBuffers(SpectralSamples) :
          SpectralAlone /\ SpectralPushChannelsSamples(chans, s)
                        /\ UNCHANGED <<sbVars, colVars, oscRaceVars, sdcRaceVars, regVars, plotVars, glVars>>
    \/ SpectralAlone /\ SpectralStartReading /\ UNCHANGED <<sbVars, colVars, oscRaceVars, sdcRaceVars, regVars, plotVars, glVars>>
    \/ SpectralAlone /\ SpectralFinishedReading /\ UNCHANGED <<sbVars, colVars, oscRaceVars, sdcRaceVars, regVars, plotVars, glVars>>

\* the OscilloscopeDataCollector: the realtime thread pushing, the consumer thread
\* applying settings, the sink reading
NextOscRace ==
    \/ \E n \in RaceChannelCounts : RS_SetChannels(n) /\ UNCHANGED <<sbVars, colVars, sdcRaceVars, regVars, plotVars, glVars>>
    \/ \E rate \in RaceSampleRates : RS_SetSampleRate(rate) /\ UNCHANGED <<sbVars, colVars, sdcRaceVars, regVars, plotVars, glVars>>
    \/ RS_StartReading /\ UNCHANGED <<sbVars, colVars, sdcRaceVars, regVars, plotVars, glVars>>
    \/ RS_FinishedReading /\ UNCHANGED <<sbVars, colVars, sdcRaceVars, regVars, plotVars, glVars>>
    \/ \E n \in 1 .. MaxPushLen : \E trig \in 0 .. (n - 1) :
          PR_Start(n, trig) /\ UNCHANGED <<sbVars, colVars, sdcRaceVars, regVars, plotVars, glVars>>
    \/ PR_Size /\ UNCHANGED <<sbVars, colVars, sdcRaceVars, regVars, plotVars, glVars>>
    \/ PR_Trig /\ UNCHANGED <<sbVars, colVars, sdcRaceVars, regVars, plotVars, glVars>>
    \/ PR_Scan /\ UNCHANGED <<sbVars, colVars, sdcRaceVars, regVars, plotVars, glVars>>
    \/ PR_Num /\ UNCHANGED <<sbVars, colVars, sdcRaceVars, regVars, plotVars, glVars>>
    \/ PR_Copy /\ UNCHANGED <<sbVars, colVars, sdcRaceVars, regVars, plotVars, glVars>>
    \/ PR_Count /\ UNCHANGED <<sbVars, colVars, sdcRaceVars, regVars, plotVars, glVars>>
    \/ PR_Full /\ UNCHANGED <<sbVars, colVars, sdcRaceVars, regVars, plotVars, glVars>>
    \/ \E v \in RaceTimesViewed : AS_TimeViewed(v) /\ UNCHANGED <<sbVars, colVars, sdcRaceVars, regVars, plotVars, glVars>>
    \/ AS_NumSamples /\ UNCHANGED <<sbVars, colVars, sdcRaceVars, regVars, plotVars, glVars>>
    \/ AS_Count /\ UNCHANGED <<sbVars, colVars, sdcRaceVars, regVars, plotVars, glVars>>
    \/ AS_Bytes /\ UNCHANGED <<sbVars, colVars, sdcRaceVars, regVars, plotVars, glVars>>
    \/ AS_Offset /\ UNCHANGED <<sbVars, colVars, sdcRaceVars, regVars, plotVars, glVars>>
    \/ \E b \in BOOLEAN : AS_Triggered(b) /\ UNCHANGED <<sbVars, colVars, sdcRaceVars, regVars, plotVars, glVars>>

\* the SpectralDataCollector: the realtime thread pushing, the consumer thread
\* setting the FFT order, the sink reading
NextSdcRace ==
    \/ \E n \in ChannelCounts : SS_SetChannels(n) /\ UNCHANGED <<sbVars, colVars, oscRaceVars, regVars, plotVars, glVars>>
    \/ SS_StartReading /\ UNCHANGED <<sbVars, colVars, oscRaceVars, regVars, plotVars, glVars>>
    \/ SS_FinishedReading /\ UNCHANGED <<sbVars, colVars, oscRaceVars, regVars, plotVars, glVars>>
    \/ \E s \in LongBuffers(SpectralSamples) :
          SP_Start(s) /\ UNCHANGED <<sbVars, colVars, oscRaceVars, regVars, plotVars, glVars>>
    \/ SP_TryLock /\ UNCHANGED <<sbVars, colVars, oscRaceVars, regVars, plotVars, glVars>>
    \/ SP_Num /\ UNCHANGED <<sbVars, colVars, oscRaceVars, regVars, plotVars, glVars>>
    \/ SP_Copy /\ UNCHANGED <<sbVars, colVars, oscRaceVars, regVars, plotVars, glVars>>
    \/ SP_Add /\ UNCHANGED <<sbVars, colVars, oscRaceVars, regVars, plotVars, glVars>>
    \/ SP_ProcessFFT /\ UNCHANGED <<sbVars, colVars, oscRaceVars, regVars, plotVars, glVars>>
    \/ SP_Unlock /\ UNCHANGED <<sbVars, colVars, oscRaceVars, regVars, plotVars, glVars>>
    \/ \E o \in ChangedFFTOrders : SC_Lock(o) /\ UNCHANGED <<sbVars, colVars, oscRaceVars, regVars, plotVars, glVars>>
    \/ SC_Order /\ UNCHANGED <<sbVars, colVars, oscRaceVars, regVars, plotVars, glVars>>
    \/ SC_FFT /\ UNCHANGED <<sbVars, colVars, oscRaceVars, regVars, plotVars, glVars>>
    \/ SC_RecLock /\ UNCHANGED <<sbVars, colVars, oscRaceVars, regVars, plotVars, glVars>>
    \/ SC_Memory /\ UNCHANGED <<sbVars, colVars, oscRaceVars, regVars, plotVars, glVars>>
    \/ SC_Unlock /\ UNCHANGED <<sbVars, colVars, oscRaceVars, regVars, plotVars, glVars>>

\* the settings of the two collectors, from the collector side and from the
\* target side
NextSettings ==
    \/ \E n \in SettingChannelCounts : OscSetChannels(n) /\ UNCHANGED <<sbVars, colVars, oscRaceVars, sdcRaceVars, regVars, plotVars, glVars>>
    \/ \E t \in SettingTimesViewed : OscSetTimeViewed(t) /\ UNCHANGED <<sbVars, colVars, oscRaceVars, sdcRaceVars, regVars, plotVars, glVars>>
    \/ \E rate \in SampleRates : OscSetSampleRate(rate) /\ UNCHANGED <<sbVars, colVars, oscRaceVars, sdcRaceVars, regVars, plotVars, glVars>>
    \/ \E b \in BOOLEAN, ch \in TriggerChannels : OscEnableTriggeringOn(b, ch) /\ UNCHANGED <<sbVars, colVars, oscRaceVars, sdcRaceVars, regVars, plotVars, glVars>>
    \/ \E k \in SettingKeys, v \in SettingValues : OscApplySettingFromTarget(k, v) /\ UNCHANGED <<sbVars, colVars, oscRaceVars, sdcRaceVars, regVars, plotVars, glVars>>
    \/ \E n \in SettingChannelCounts : SpectralSetChannels(n) /\ UNCHANGED <<sbVars, colVars, oscRaceVars, sdcRaceVars, regVars, plotVars, glVars>>
    \/ \E o \in ChangedFFTOrders : SpectralSetFFTOrder(o) /\ UNCHANGED <<sbVars, colVars, oscRaceVars, sdcRaceVars, regVars, plotVars, glVars>>
    \/ SpectralSetSampleRate /\ UNCHANGED <<sbVars, colVars, oscRaceVars, sdcRaceVars, regVars, plotVars, glVars>>
    \/ \E k \in SettingKeys, v \in SettingValues : SpectralApplySettingFromTarget(k, v) /\ UNCHANGED <<sbVars, colVars, oscRaceVars, sdcRaceVars, regVars, plotVars, glVars>>

\* the registry: registrations in any order, routing calls of registered targets,
\* setters of the collectors
NextRegistry ==
    \/ \E t \in RegTargets : RegisterVisualizationTarget(t) /\ UNCHANGED <<sbVars, colVars, pushVars, oscRaceVars, sdcRaceVars, plotVars, glVars>>
    \/ FinishedRegisteringTargets /\ UNCHANGED <<sbVars, colVars, pushVars, oscRaceVars, sdcRaceVars, plotVars, glVars>>
    \/ \E c \in RegCollectors : RegisterDataCollector(c) /\ UNCHANGED <<sbVars, colVars, pushVars, oscRaceVars, sdcRaceVars, plotVars, glVars>>
    \/ \E op \in RoutingCalls, t \in RegTargets : RouteToCollector(op, t) /\ UNCHANGED <<sbVars, colVars, pushVars, oscRaceVars, sdcRaceVars, plotVars, glVars>>
    \/ \E c \in RegCollectors : UpdateGUI(c) /\ UNCHANGED <<sbVars, colVars, pushVars, oscRaceVars, sdcRaceVars, plotVars, glVars>>

\* the oscilloscope's collector is set up (setChannels, setSampleRate), its time
\* viewed is changed once, the producer pushes buffers of the collector's channel
\* count, the sink reads
ConvergePushedSamples == {1}
ConvergeSetChannels == osc.numChannels = 0 /\ OscSetChannels(1) /\ UNCHANGED <<sbVars, colVars, oscRaceVars, sdcRaceVars, regVars, plotVars, glVars>>
ConvergeSetSampleRate == osc.sampleRate = 1 /\ OscSetSampleRate(100) /\ UNCHANGED <<sbVars, colVars, oscRaceVars, sdcRaceVars, regVars, plotVars, glVars>>
ConvergeSetTimeViewed == osc.tView = 1 /\ OscSetTimeViewed(2) /\ UNCHANGED <<sbVars, colVars, oscRaceVars, sdcRaceVars, regVars, plotVars, glVars>>
ConvergePush ==
    /\ osc.numChannels > 0
    /\ \E s \in PushedBuffers(ConvergePushedSamples) :
          OscPushChannelsSamples(osc.numChannels, s)
    /\ UNCHANGED <<sbVars, colVars, oscRaceVars, sdcRaceVars, regVars, plotVars, glVars>>
ConvergeStartReading == OscStartReading /\ UNCHANGED <<sbVars, colVars, oscRaceVars, sdcRaceVars, regVars, plotVars, glVars>>
ConvergeFinishedReading == OscFinishedReading /\ UNCHANGED <<sbVars, colVars, oscRaceVars, sdcRaceVars, regVars, plotVars, glVars>>

NextConverge ==
    \/ ConvergeSetChannels
    \/ ConvergeSetSampleRate
    \/ ConvergeSetTimeViewed
    \/ ConvergePush
    \/ ConvergeStartReading
    \/ ConvergeFinishedReading

NextPlot ==
    /\ \/ PlotSetDataSource
       \/ PlotApplySettingFromCollector
       \/ PlotResizeMemoryBlock
       \/ PlotStartWriting
       \/ PlotFinishedWriting
       \/ RP_Render
       \/ RP_BeginFrame
       \/ RP_Compare
       \/ RP_GiveBack
       \/ RP_Lines
       \/ RP_EndFrame
    /\ UNCHANGED <<sbVars, colVars, pushVars, oscRaceVars, sdcRaceVars, regVars, glVars>>

NextGL ==
    /\ \/ SetTopLevelParentComponent
       \/ \E t \in GLTargets : AddRenderingTarget_Execute(t)
       \/ AddRenderingTarget_Add
       \/ \E t \in GLTargets : RemoveRenderingTarget_Execute(t)
       \/ RemoveRenderingTarget_Remove
       \/ RenderOpenGL_Begin
       \/ RenderOpenGL_Jobs
       \/ RenderOpenGL_Targets
    /\ UNCHANGED <<sbVars, colVars, pushVars, oscRaceVars, sdcRaceVars, regVars, plotVars>>

vars == <<sbVars, colVars, pushVars, oscRaceVars, sdcRaceVars, regVars, plotVars, glVars>>
Init == SBInit /\ ColInit /\ PushInit /\ OscRaceInit /\ SdcRaceInit /\ RegInit /\ PlotInit /\ GLInit

SpecSB == Init /\ [][NextSB]_vars
SpecSBA == Init /\ [][NextSBA]_vars
SpecSB2 == Init /\ [][NextSB2]_vars
SpecCol == Init /\ [][NextCol]_vars
SpecPush == Init /\ [][NextPush]_vars
SpecReconf == Init /\ [][NextReconf]_vars
SpecOscRace == Init /\ [][NextOscRace]_vars
SpecSdcRace == Init /\ [][NextSdcRace]_vars
SpecSettings == Init /\ [][NextSettings]_vars
SpecRegistry == Init /\ [][NextRegistry]_vars
SpecPlot == Init /\ [][NextPlot]_vars
SpecGL == Init /\ [][NextGL]_vars
\* the producer keeps pushing (the audio callback), the sink keeps reading (the
\* render loop)
SpecConverge ==
    /\ Init /\ [][NextConverge]_vars
    /\ WF_vars(ConvergePush)
    /\ WF_vars(ConvergeStartReading)
    /\ WF_vars(ConvergeFinishedReading)

---------------------------------------------------------------------------
(* Claims about the SwappableBuffer *)

\* what one channel of a region holds after write k alone: its elements, then zeros
DataOf(k) == [j \in 1 .. Size |-> IF j <= sbG.len[k] THEN k ELSE 0]

\* the region holds the initial contents or all channels of one single write
Complete(reg) ==
    \/ \A ch \in Channels : \A j \in 1 .. Size : reg[ch][j] = Uninit
    \/ \E k \in 1 .. Len(sbG.len) : \A ch \in Channels : reg[ch] = DataOf(k)

\* a getReadBuffer call of consumer c returns now (the lock is free), with readChannels
\* as it is in this state
GetEnabled(c) == sbT[c].pc = "idle" /\ readBufferLock = NoThread

InWrite(p) == sbT[p].pc # "idle"
HasHandle(c) == sbT[c].pc \in {"holding", "r_swap", "r_unlock"}

\* C1: with one producer calling writeNewBuffer and one consumer, the region seen
\* through a held read handle always holds all channels of one single write or the
\* initial contents: the consumer never observes a torn block.
C1_NoTornRead ==
    \A c \in Consumers : Holding(c) => Complete(buffers[readChannels])

\* C4: if a write W completed while the consumer held a handle, the first getReadBuffer
\* after the release of that handle returns the data of W or of a later write, never
\* older data.
C4_DeferredWriteVisible ==
    \A c \in Consumers :
        (GetEnabled(c) /\ sbG.mustSee > 0)
            => \A ch \in Channels : buffers[readChannels][ch][1] >= sbG.mustSee

\* C6: the release of a read handle consumes the pending swap (readerShouldSwapPtrs
\* is false after it), so getReadBuffer calls with no write between them return the
\* same region.
C6_ReleaseConsumesSwap ==
    /\ sbEv[1] = "release" => ~readerShouldSwapPtrs
    /\ \A c \in Consumers :
        (GetEnabled(c) /\ sbG.quiet /\ sbG.prev # -1) => readChannels = sbG.prev

\* C7: at most one write call is between taking and releasing the write lock and at
\* most one read handle exists; a write call that finds another one in progress
\* returns without changing a region, the pointers or the remaining capacity.
C7_Exclusive ==
    /\ Cardinality({p \in Producers : InWrite(p)}) <= 1
    /\ Cardinality({c \in Consumers : HasHandle(c)}) <= 1
    /\ \A p \in Producers : InWrite(p) => writeBuferLock = p
    /\ \A c \in Consumers : HasHandle(c) => readBufferLock = c

C7_DropStep ==
    sbEv'[1] = "dropped" =>
        /\ UNCHANGED <<buffers, writeChannels, readChannels,
                       writeBufferRemainingCapacity, readerShouldSwapPtrs, sbT>>
        /\ \E q \in Producers \ {sbEv'[2]} : InWrite(q)

C7_OneWriterOneReader == [](C7_Exclusive) /\ [][C7_DropStep]_vars

\* C7 witness: the call of p2 was dropped while p1 copies and c1 holds a handle
C7_Witness ==
    /\ sbEv = <<"dropped", "p2">>
    /\ sbT["p1"].pc = "w_fill"
    /\ Holding("c1")

\* C8: after two or more writes that completed with no getReadBuffer in between, the
\* next getReadBuffer returns exactly the data of the last of them.
C8_LastWriteWins ==
    \A c \in Consumers :
        (GetEnabled(c) /\ sbG.sinceGet >= 2)
            => \A ch \in Channels : buffers[readChannels][ch] = DataOf(sbG.done)

\* C9: a region that an appendToWriteBuffer call filled completely becomes the read
\* region before any later appendToWriteBuffer call writes into it.
C9_FilledRegionPublished == ~sbG.wroteFull

---------------------------------------------------------------------------
(* Claims about the DataCollector under concurrent use *)

\* C2: the block the consumer holds between startReading and finishedReading and the
\* block the producer fills between startWriting and finishedWriting are never the
\* same storage, neither is swapped away while it is held, and the blocks are swapped
\* only by a thread that holds readBufferLock and never while the producer fills.
C2_Disjoint ==
    /\ Filling => col.writeBlock.mem = colG.wmem /\ col.writeBufferLock = "prod"
    /\ Reading => col.readBlock.mem = colG.rmem /\ col.readBufferLock = "cons"
    /\ (Filling /\ Reading) => colG.wmem # colG.rmem

C2_SwapStep ==
    col'.writeBlock.mem # col.writeBlock.mem =>
        /\ ~Filling
        /\ \E t \in ColThreads :
            colT'[t] # colT[t] /\ col.readBufferLock = t /\ col'.readBufferLock = t

C2_BlocksExclusive == [](C2_Disjoint) /\ [][C2_SwapStep]_vars

\* C2 witness: after a swap, the producer fills a block in progress while the
\* consumer reads the other one
C2_Witness ==
    /\ Filling /\ Reading
    /\ colG.wmem = 1
    /\ col.numSamplesInCurrentBlock > 0

\* C3: a finishedWriting call that finds the consumer between startReading and
\* finishedReading is applied by that same finishedReading: when the read has ended
\* the blocks were swapped, no write is left pending.
C3_DeferredSwapApplied == colEv = "read_end" => ~colG.called

\* C5: the producer is never locked out: no state has both threads outside their
\* calls with writeBufferLock held, readerShouldSwapBlocks false and no block in
\* progress (from such a state every startWriting returns nullptr).
C5_NoLockout ==
    ~ /\ colT["prod"].pc = "idle"
      /\ colT["cons"].pc = "idle"
      /\ col.writeBufferLock # NoThread
      /\ ~col.readerShouldSwapBlocks
      /\ ~col.currentWriteBlock

---------------------------------------------------------------------------
(* Claims about the collectors call by call *)

AllZero(b, z) == \A i \in 1 .. Len(b.data) : b.data[i] = z

\* the block handed over by the finishedWriting of the call made last: the read
\* block after the swap, the write block while the swap is left to the reader
Published(c) == IF c.readerShouldSwapBlocks THEN c.writeBlock ELSE c.readBlock

\* C10: a pushChannelsSamples call whose buffer has a channel count different from
\* numChannels, made while a block is in progress, fills that block with zeros,
\* publishes it (finishedWriting) and resets the state of the frame in progress,
\* for the OscilloscopeDataCollector and for the SpectralDataCollector alike.
C10_MismatchZeroFillsAndPublishes ==
    (call.op = "push" /\ call.mismatch /\ call.inProgress) =>
        /\ call.finished
        /\ call.coll = "osc" =>
              /\ ~osc.currentWriteBlock
              /\ ~osc.foundTriggerInCurrentBlock
              /\ osc.numSamplesInCurrentBlock = 0
              /\ AllZero(Published(osc), 0)
        /\ call.coll = "spectral" =>
              /\ ~sdc.currentWriteBlock
              /\ sdc.numFFTSCalculated = 0
              /\ sdc.numSamplesInSampleBuffer = 0
              /\ AllZero(Published(sdc), SpectralZero)

\* the oscilloscope's half of C10
C10_OscHalf == call.coll = "osc" => C10_MismatchZeroFillsAndPublishes

---------------------------------------------------------------------------
(* Claims about the OscilloscopeDataCollector call by call *)

\* the frame a pushed buffer of chans channels fills: channel c at offset c * L
FrameOf(s, chans) == [j \in 1 .. chans * Len(s) |->
                        (((j - 1) \div Len(s)) + 1) * s[((j - 1) % Len(s)) + 1]]

\* a push of exactly one frame: triggering disabled, frame length L > 0, frame
\* offset 0, a buffer of L samples with the configured channel count
FramePush ==
    /\ call'.op = "push" /\ call'.coll = "osc" /\ ~call'.mismatch
    /\ ~osc.triggeringEnabled
    /\ osc.numSamplesExpected > 0
    /\ osc.numSamplesInCurrentBlock = 0
    /\ Len(call'.buffer) = osc.numSamplesExpected

\* C11: with triggering disabled and frame length L, every push of exactly L
\* samples with the configured channel count, made from the configured collector
\* on, publishes one frame; the frame holds for every channel c, at offset c * L,
\* the L samples of channel c of that push; the frame offset is 0 afterwards.
C11_FramePerPush ==
    [][FramePush =>
          /\ call'.finished
          /\ Published(osc').data = FrameOf(call'.buffer, call'.chans)
          /\ osc'.numSamplesInCurrentBlock = 0]_vars

\* the first index i >= 1 (0-based) at which the samples s cross zero upwards
FirstCrossing(s, i) ==
    /\ i \in 1 .. (Len(s) - 1)
    /\ s[i] <= 0 /\ s[i + 1] > 0
    /\ \A j \in 1 .. (i - 1) : ~(s[j] <= 0 /\ s[j + 1] > 0)

\* a push to the armed collector at the start of a frame: triggering enabled, no
\* trigger found, frame offset 0, a write block of the expected size at hand
ArmedPush ==
    /\ call'.op = "push" /\ call'.coll = "osc" /\ ~call'.mismatch
    /\ osc.triggeringEnabled /\ ~osc.foundTriggerInCurrentBlock
    /\ osc.numSamplesInCurrentBlock = 0
    /\ osc.numSamplesExpected > 0
    /\ osc.currentWriteBlock \/ osc.writeBufferLock = NoThread
    /\ osc.writeBlock.size = osc.expectedNumBytesForMemoryBlock

\* the frame starts with sample i of every channel at frame offset 0; at most
\* numSamplesExpected samples are copied
StartsAt(i) ==
    LET s == call'.buffer
        L == osc.numSamplesExpected
        n == IF Len(s) - i < L THEN Len(s) - i ELSE L
        frame == IF call'.finished THEN Published(osc') ELSE osc'.writeBlock
    IN /\ call'.finished = (n = L)
       /\ osc'.numSamplesInCurrentBlock = (IF n = L THEN 0 ELSE n)
       /\ ~call'.finished => osc'.foundTriggerInCurrentBlock
       /\ \A c \in 1 .. call'.chans : \A k \in 1 .. n :
              frame.data[(c - 1) * L + k] = c * s[i + k]

\* a push without a crossing captures nothing: offset 0, the trigger stays armed
CapturesNothing ==
    /\ osc'.numSamplesInCurrentBlock = 0
    /\ ~osc'.foundTriggerInCurrentBlock
    /\ ~call'.finished
    /\ osc'.writeBlock = osc.writeBlock

\* a frame captured with triggering enabled is published
TriggeredFramePublished ==
    /\ call'.op = "push" /\ call'.coll = "osc" /\ call'.finished
    /\ call.trigFrame
    /\ ~AllZero(Published(osc'), 0)

\* C12: with triggering enabled and a new frame, a push whose trigger channel
\* crosses zero upwards first at index i starts the frame with sample i of every
\* channel at offset 0 and copies at most numSamplesExpected samples; a push
\* without a crossing captures nothing and leaves the offset at 0 and the trigger
\* armed; every published frame that holds captured samples begins at a rising
\* edge of the trigger channel (its first sample is > 0).
C12_TriggeredCapture ==
    [][/\ ArmedPush =>
            /\ \A i \in 1 .. MaxPushLen :
                   FirstCrossing(call'.buffer, i) => StartsAt(i)
            /\ (\A i \in 1 .. MaxPushLen : ~FirstCrossing(call'.buffer, i))
                   => CapturesNothing
       /\ TriggeredFramePublished => Published(osc').data[1] > 0]_vars

\* the two statements of C12 about a single push
C12_PushHalf ==
    [][ArmedPush =>
            /\ \A i \in 1 .. MaxPushLen :
                   FirstCrossing(call'.buffer, i) => StartsAt(i)
            /\ (\A i \in 1 .. MaxPushLen : ~FirstCrossing(call'.buffer, i))
                   => CapturesNothing]_vars

\* q is tView / tSample rounded to an integer
IsRounded(q, c) ==
    LET num == c.tView * c.sampleRate
        d == num - TViewPerSecond * q
    IN 2 * (IF d < 0 THEN -d ELSE d) <= TViewPerSecond

\* C20: after setTimeViewed, setSampleRate or applySettingFromTarget (timeViewed)
\* the frame length is round (tView / tSample), the expected block size is
\* numChannels * frameLength * sizeof (float), and the capture state is reset:
\* numSamplesInCurrentBlock is 0 and the trigger is armed again
\* (foundTriggerInCurrentBlock is false).
C20_TimebaseResetsCapture ==
    (call.coll = "osc" /\ call.op \in {"setTimeViewed", "setSampleRate"}) =>
        /\ IsRounded(osc.numSamplesExpected, osc)
        /\ osc.expectedBlockSize
              = osc.numChannels * osc.numSamplesExpected * SizeofFloat
        /\ osc.numSamplesInCurrentBlock = 0
        /\ ~osc.foundTriggerInCurrentBlock

\* C20 without the re-arming of the trigger
C20_LengthHalf ==
    (call.coll = "osc" /\ call.op \in {"setTimeViewed", "setSampleRate"}) =>
        /\ IsRounded(osc.numSamplesExpected, osc)
        /\ osc.expectedBlockSize
              = osc.numChannels * osc.numSamplesExpected * SizeofFloat
        /\ osc.numSamplesInCurrentBlock = 0

---------------------------------------------------------------------------
(* Claims about the SpectralDataCollector call by call *)

\* a float of a block that is the sum of the magnitudes of numFFTSToAverage
\* transforms, added to 0 and scaled once for the FFT length N
Averaged(e, N) ==
    /\ Len(e) = numFFTSToAverage + 1
    /\ \A k \in 1 .. numFFTSToAverage : e[k][1] = "add"
    /\ e[numFFTSToAverage + 1] = <<"mul", N>>

\* the push made last published a block (finishedWriting)
SpectralPublished ==
    call.coll = "spectral" /\ call.op = "push" /\ call.finished

\* C13: every published block whose size equals the expected block size holds the
\* sum of the magnitudes of exactly numFFTSToAverage transforms, accumulated since
\* the block was acquired and cleared, scaled once by
\* 2 / (numSamplesExpected * numFFTSToAverage); right after such a publication
\* numFFTSCalculated is 0 and no write block is held.
C13_AverageOfThree ==
    (SpectralPublished /\ Published(sdc).size = sdc.expectedBlockSize) =>
        /\ \A n \in 1 .. sdc.numSamplesAllChannels :
               Averaged(Published(sdc).data[n], sdc.numSamplesExpected)
        /\ sdc.numFFTSCalculated = 0
        /\ ~sdc.currentWriteBlock

\* C14: with FFT length N and correctly sized blocks, pushing a total of exactly
\* numFFTSToAverage * N samples per channel, split into pushes of any sizes, runs
\* exactly numFFTSToAverage transforms over consecutive N-sample slices of the
\* stream and publishes exactly one block; no pushed sample is skipped.
C14_WholeStreamTransformed ==
    (call.coll = "spectral" /\ call.op = "push"
        /\ call.streamed = numFFTSToAverage * sdc.numSamplesExpected) =>
        /\ call.ffts = numFFTSToAverage
        /\ call.pubs = 1
        /\ sdc.numSamplesInSampleBuffer = 0

\* no published block holds the magnitudes of some, but fewer than
\* numFFTSToAverage transforms: a float is 0 or a complete average
ZeroOrAveraged(e) ==
    \/ e = SpectralZero
    \/ \E N \in {2 ^ o : o \in FFTOrders \cup ChangedFFTOrders} : Averaged(e, N)

\* C15: the SpectralDataCollector never publishes a block that holds the
\* accumulated magnitudes of fewer than numFFTSToAverage transforms: a block in
\* progress that can no longer be completed is filled with zeros before it is
\* published, or it is not published at all.
C15_NoPartialAverage ==
    SpectralPublished =>
        \A n \in 1 .. Len(Published(sdc).data) :
            ZeroOrAveraged(Published(sdc).data[n])

\* C16: setFFTOrder in the middle of a stream resets numFFTSCalculated and
\* numSamplesInSampleBuffer to 0 and discards the accumulation in progress; the
\* next published block of the new size is the average of exactly
\* numFFTSToAverage transforms of the new length.
C16_OrderChangeResets ==
    /\ (call.coll = "spectral" /\ call.op = "setFFTOrder") =>
           /\ sdc.numFFTSCalculated = 0
           /\ sdc.numSamplesInSampleBuffer = 0
           /\ sdc.currentWriteBlock => AllZero(sdc.writeBlock, SpectralZero)
    /\ (SpectralPublished /\ call.orders > 1
            /\ Published(sdc).size = sdc.expectedBlockSize) =>
           \A n \in 1 .. sdc.numSamplesAllChannels :
               Averaged(Published(sdc).data[n], sdc.numSamplesExpected)

\* the Hamming window of length N in hundredths, 54 - 46 cos (2 pi i / (N - 1)),
\* as juce::dsp::WindowingFunction fills its table before it normalises it to the
\* sum N; exact for the lengths N = 2, 4
HammingTable(N) ==
    CASE N = 2 -> <<8, 8>>
      [] N = 4 -> <<8, 77, 77, 8>>

\* the sum of the window's table
RECURSIVE TableSum(_, _)
TableSum(table, n) == IF n = 0 THEN 0 ELSE table[n] + TableSum(table, n - 1)

\* bin j of the collector's spectral buffer is the transform of the windowed
\* samples of its channel (both sides multiplied by the sum of the table)
WindowedBin(c, j) ==
    LET N == c.numSamplesExpected
        table == HammingTable(c.windowingFunction)
        chan == (j - 1) \div N
        windowed == [n \in 1 .. N |-> c.sampleBuffer[chan * N + n] * table[n]]
        bin == Bin(windowed, N, (j - 1) % N, N)
        sum == TableSum(table, N)
    IN /\ sum * c.spectralBuffer[j][1] = N * bin[1]
       /\ sum * c.spectralBuffer[j][2] = N * bin[2]

\* C17: each time the sample buffer is full, the Hamming window of the current
\* FFT length is applied to every channel's samples before the FFT is performed
\* on them; no transform is computed on un-windowed samples.
C17_WindowBeforeFFT ==
    (call.coll = "spectral" /\ call.op = "push" /\ call.transformed) =>
        /\ sdc.windowingFunction = sdc.numSamplesExpected
        /\ \A j \in 1 .. sdc.numSamplesAllChannels : WindowedBin(sdc, j)

---------------------------------------------------------------------------
(* Claims about the collectors under concurrent use *)

\* C18: applySettingFromTarget (timeViewed, isTriggered) on the consumer thread
\* is synchronised with a pushChannelsSamples running on the realtime thread: no
\* push uses a frame length, channel offsets or a sample counter that were
\* changed in the middle of that push, and no push copies samples beyond the end
\* of the current write block or beyond a channel's region of it.
C18_SettingsSynchronised ==
    /\ ~oscP.usedChanged
    /\ ~oscP.overrun

\* the second half of C18 alone: no copy leaves the block or the channel's region
C18_NoOverrun == ~oscP.overrun

\* the consumer thread is inside setFFTOrder (recalculateMemory included) and
\* holds processingLock
InSetFFTOrder ==
    sdcC.pc \in {"sc_order", "sc_fft", "sc_reclock", "sc_memory", "sc_recunlock", "sc_unlock"}

\* the realtime thread is inside the locked body of pushChannelsSamples
InLockedPush == sdcP.pc \in {"sp_num", "sp_copy", "sp_add", "sp_full", "sp_unlock"}

\* a step of the push that is about to try the lock while setFFTOrder holds it:
\* the push returns and nothing of the collector has changed
RefusedPushReturns ==
    (sdcP.pc = "sp_try" /\ InSetFFTOrder /\ sdcP' # sdcP)
        => (sdcP'.pc = "idle" /\ sdc' = sdc /\ processingLock' = processingLock)

\* while the push is inside its locked body, setFFTOrder makes no step and the
\* FFT and the buffers are not replaced
SetterWaits ==
    InLockedPush
        => /\ sdcC' = sdcC
           /\ sdc'.fftOrder = sdc.fftOrder
           /\ sdc'.windowingFunction = sdc.windowingFunction
           /\ Len(sdc'.sampleBuffer) = Len(sdc.sampleBuffer)
           /\ Len(sdc'.spectralBuffer) = Len(sdc.spectralBuffer)

\* C19: setFFTOrder / recalculateMemory and the locked body of
\* pushChannelsSamples (processFFT included) never run at the same time; a push
\* that arrives while setFFTOrder holds processingLock returns without waiting
\* (its try_lock step is always possible) and without touching the sample buffer
\* or the counters; setFFTOrder waits until a running push has finished before it
\* replaces the FFT and the buffers.
C19_ProcessingLockExcludes ==
    /\ [](~(InSetFFTOrder /\ InLockedPush))
    /\ [](sdcP.pc = "sp_try" => ENABLED SP_TryLock)
    /\ [](InLockedPush => ~ENABLED (\E o \in ChangedFFTOrders : SC_Lock(o)))
    /\ [][RefusedPushReturns]_vars
    /\ [][SetterWaits]_vars

\* a push was refused while setFFTOrder, reconfiguring a collector that was
\* already set up, is replacing the buffers
C19_Witness ==
    /\ sdcP.refused
    /\ sdcC.pc = "sc_memory"
    /\ sdcC.sets = 2

---------------------------------------------------------------------------
(* Claims about the settings of the collectors *)

\* the channels of collector c lie one after the other in a block
ChannelLayout(c) ==
    /\ Len(c.channelOffset) = c.numChannels
    /\ \A i \in 1 .. c.numChannels : c.channelOffset[i] = (i - 1) * c.numSamplesExpected
    /\ c.expectedNumBytesForMemoryBlock = c.numChannels * c.numSamplesExpected * SizeofFloat
    /\ c.expectedBlockSize = c.expectedNumBytesForMemoryBlock

\* C21: after any sequence of setChannels, setTimeViewed, setSampleRate,
\* setFFTOrder and settings applied from the target, channelOffset of both
\* collectors has exactly numChannels entries, channelOffset[i] = i *
\* numSamplesExpected, and the expected block size is numChannels *
\* numSamplesExpected * sizeof (float).
C21_ChannelLayout ==
    /\ ChannelLayout(osc)
    /\ ChannelLayout(sdc)

\* both collectors have two channels of more than one sample, the oscilloscope's
\* frame length set from the target side
C21_Witness ==
    /\ osc.numChannels = 2 /\ osc.numSamplesExpected = 4
    /\ sdc.numChannels = 2 /\ sdc.numSamplesExpected = 4
    /\ call.op = "applySettingFromTarget"

\* what the setting (setting, value) is to do to the oscilloscope's collector: the
\* same as setTimeViewed (value), or a change of the triggering-enabled flag alone,
\* or nothing
OscSettingEffect(setting, value) ==
    IF setting = "timeViewed" /\ value.type = "double"
    THEN osc' = OscRecalculateNumSamples([osc EXCEPT !.tView = value.v])
    ELSE IF setting = "isTriggered" /\ value.type = "bool"
         THEN osc' = [osc EXCEPT !.triggeringEnabled = value.v]
         ELSE osc' = osc

\* the same for the spectral collector: setFFTOrder (value), or nothing
SpectralSettingEffect(setting, value) ==
    IF setting = "fftOrder" /\ value.type = "int"
    THEN sdc' = SpectralFFTOrderSet(sdc, value.v)
    ELSE sdc' = sdc

\* C26: applySettingFromTarget of both collectors changes only the state named
\* by the setting: an unknown key or a value of the wrong type changes nothing,
\* isTriggered changes only the triggering-enabled flag and leaves the trigger
\* channel as it was chosen, and timeViewed / fftOrder give the state that
\* setTimeViewed / setFFTOrder give.
C26_SettingChangesOnlyItsState ==
    [][\A k \in SettingKeys, v \in SettingValues :
          /\ OscApplySettingFromTarget(k, v) => OscSettingEffect(k, v)
          /\ SpectralApplySettingFromTarget(k, v) => SpectralSettingEffect(k, v)]_vars

\* C26 without the trigger channel: every other part of it holds
C26_ButTriggerChannel ==
    [][\A k \in SettingKeys, v \in SettingValues :
          /\ OscApplySettingFromTarget(k, v)
                => \E ch \in TriggerChannels :
                      [osc EXCEPT !.triggerChannel = ch]' =
                          IF k = "timeViewed" /\ v.type = "double"
                          THEN OscRecalculateNumSamples(
                                   [osc EXCEPT !.tView = v.v, !.triggerChannel = ch])
                          ELSE IF k = "isTriggered" /\ v.type = "bool"
                               THEN [osc EXCEPT !.triggeringEnabled = v.v,
                                                !.triggerChannel = ch]
                               ELSE [osc EXCEPT !.triggerChannel = ch]
          /\ SpectralApplySettingFromTarget(k, v) => SpectralSettingEffect(k, v)]_vars

---------------------------------------------------------------------------
(* Claims about LocalDataSinkAndSource *)

\* C22: registerDataCollector for a collector whose id equals no registered
\* target identifier returns a failure Result and changes nothing: sinkIdx stays
\* -1, sink stays nullptr, and targetIdentifiers, targets and collectors (and so
\* the routing of every pair registered before) are unchanged.
C22_FailedRegistrationChangesNothing ==
    [][\A c \in RegCollectors :
          (RegisterDataCollector(c) /\ IndexOf(lds.targetIdentifiers, IdOf(c)) = -1)
              => /\ ~regCall'.ok
                 /\ lds' = lds
                 /\ lds.sinkIdx[c] = -1 => (lds'.sinkIdx[c] = -1 /\ ~lds'.sink[c])]_vars

\* a registration has failed while a pair was registered and routed
C22_Witness ==
    /\ regCall.op = "registerDataCollector" /\ ~regCall.ok
    /\ regCall.order = "collectors"
    /\ \E c \in RegCollectors : lds.sink[c] /\ ArrayGet(lds.collectors, lds.sinkIdx[c]) = c

\* the registered targets have pairwise distinct identifiers and the calls have
\* come in the order targets, finishedRegisteringTargets, collectors
DocumentedUse ==
    /\ regCall.order # "broken"
    /\ \A i, j \in 1 .. Len(lds.targetIdentifiers) :
          lds.targetIdentifiers[i] = lds.targetIdentifiers[j] => i = j

StoredAtTargetIdx(c) ==
    /\ \E k \in 1 .. Len(lds'.targets) :
          /\ IdOf(lds'.targets[k]) = IdOf(c)
          /\ ArrayGet(lds'.collectors, lds'.targetIdx[lds'.targets[k]]) = c
    /\ \A i \in 1 .. Len(lds'.collectors) :
          (lds'.collectors[i] = c /\ ArrayGet(lds.collectors, i - 1) # c)
              => i - 1 = lds'.sinkIdx[c]

\* C24: the registry enforces the order targets, finishedRegisteringTargets,
\* collectors: after finishedRegisteringTargets a registerVisualizationTarget
\* does not add or change an index, and a registerDataCollector made before
\* finishedRegisteringTargets never stores the collector at an index other than
\* the targetIdx of its target.
C24_OrderEnforced ==
    [][/\ (regCall.finished /\ regCall'.op = "registerVisualizationTarget")
            => /\ lds'.targetIdentifiers = lds.targetIdentifiers
               /\ lds'.targetIdx = lds.targetIdx
       /\ (~regCall.finished /\ regCall'.op = "registerDataCollector" /\ regCall'.ok)
            => StoredAtTargetIdx(regCall'.on)]_vars

\* C24, amended: the registry relies on the order, it does not enforce it. As long
\* as the calls come in the order targets, finishedRegisteringTargets,
\* collectors, the index space does not change after finishedRegisteringTargets,
\* the collectors table has one entry for every index, and every successful
\* registerDataCollector stores the collector at the targetIdx of its target.
C24_DocumentedOrderSuffices ==
    [][regCall'.order = "collectors"
          => /\ regCall.finished
                  => /\ lds'.targetIdentifiers = lds.targetIdentifiers
                     /\ lds'.targetIdx = lds.targetIdx
             /\ Len(lds'.collectors) = Len(lds'.targetIdentifiers)
             /\ (regCall'.op = "registerDataCollector" /\ regCall'.ok)
                  => StoredAtTargetIdx(regCall'.on)]_vars

\* in the documented order the collector of the second target was registered
\* first, then the collector of the first
C24_Witness ==
    /\ regCall.order = "collectors"
    /\ regCall.op = "registerDataCollector" /\ regCall.on = "c1"
    /\ lds.collectors = <<"c1", "c2">>

\* C29: a collector whose registration failed or never happened stays usable:
\* no setter of a collector uses the sink pointer while it is null, and no
\* routing call of a registered target uses an entry of the collectors table
\* that is unset.
C29_UnregisteredStaysUsable ==
    /\ regCall.op = "applySettingToTarget" => regCall.ok
    /\ regCall.op \in RoutingCalls => regCall.to # Null

\* the second half of C29 alone, in the documented order of registration
C29_TableEntrySet ==
    (regCall.op \in RoutingCalls /\ regCall.order = "collectors") => regCall.to # Null

---------------------------------------------------------------------------
(* Claims about dataBlockReady *)

\* C25: dataBlockReady (sinkIdx) is invoked once for every swap of writeBlock
\* and readBlock (a swap is made only by a thread that then goes on to the call),
\* and always on the producer thread that finalized the block, never on the
\* consumer thread.
C25_ReadyOnProducerThread ==
    /\ [](colEv # "ready_cons")
    /\ [][col'.writeBlock.mem # col.writeBlock.mem
             => \E t \in ColThreads : /\ colT[t].pc \in {"fw_swap", "fr_swap"}
                                      /\ colT'[t].pc \in {"fw_unlockw", "fr_unlockw"}]_vars

---------------------------------------------------------------------------
(* Claims about the lazy resizing of the memory blocks *)

\* the expected block size of the oscilloscope's collector was just changed
SizeChanged ==
    /\ call.coll = "osc"
    /\ call.op \in {"setChannels", "setSampleRate", "setTimeViewed"}
    /\ osc.expectedBlockSize > 0

BothBlocksSized ==
    /\ osc.readBlock.size = osc.expectedBlockSize
    /\ osc.writeBlock.size = osc.expectedBlockSize

\* the block the sink reads next has the expected size and holds pushed samples
DataPublished ==
    /\ osc.expectedBlockSize > 0
    /\ Published(osc).size = osc.expectedBlockSize
    /\ \A i \in 1 .. Len(Published(osc).data) :
          Published(osc).data[i] \in ConvergePushedSamples

\* C27: after the expected block size changes, if the producer keeps pushing
\* matching buffers and the consumer keeps performing startReading /
\* finishedReading cycles, then eventually both memory blocks have the expected
\* size and a block holding pushed data is published; and pushed samples are
\* never in a block in progress whose size differs from the expected size.
C27_ResizingConverges ==
    /\ [](osc.numSamplesInCurrentBlock > 0
            => osc.writeBlock.size = osc.expectedNumBytesForMemoryBlock)
    /\ SizeChanged ~> DataPublished
    /\ SizeChanged ~> BothBlocksSized

\* C27 without the sizes of both blocks: a block of pushed data is published
C27_DataPublished ==
    /\ [](osc.numSamplesInCurrentBlock > 0
            => osc.writeBlock.size = osc.expectedNumBytesForMemoryBlock)
    /\ SizeChanged ~> DataPublished

---------------------------------------------------------------------------
(* Claims about the render passes *)

\* C28: in every render pass with a data source set, the startReading of
\* beginFrame is followed by exactly one finishedReading, in beginFrame when the
\* block size does not match and otherwise in endFrame; the collector's read
\* lock is not held between passes and is never released without being held
\* (released unacquired, or released twice).
C28_OneFinishedReadingPerPass ==
    /\ ~plotSrc.unlockedUnheld
    /\ plot.pass.finished <= plot.pass.started
    /\ plot.pass.started <= 1
    /\ plot.pc \in {"compare", "giveBack"} => plot.pass.started = 1
    /\ plot.pc = "idle" =>
          /\ plotSrc.readBufferLock = "none"
          /\ plot.pass.finished = plot.pass.started
          /\ plot.pass.started = 1 =>
                plot.pass.finishedIn = (IF plot.pass.mismatch THEN "beginFrame"
                                       ELSE "endFrame")

\* a pass has ended whose block matched and was given back in endFrame, after
\* a pass that gave it back in beginFrame (the block has a size)
C28_Witness ==
    /\ plot.pc = "idle"
    /\ plot.pass.started = 1
    /\ plot.pass.finishedIn = "endFrame"
    /\ plotSrc.readSize > 0

---------------------------------------------------------------------------
(* Claims about the SharedOpenGLContext *)

IsPrefix(s, u) == Len(s) <= Len(u) /\ \A i \in 1 .. Len(s) : s[i] = u[i]

\* every queued job is run at most once, in the order it was queued, and is
\* pending until it is run
JobsInOrder ==
    /\ IsPrefix(glc.ran, glc.queued)
    /\ glc.queued = glc.ran \o glc.executeInRenderCallback

\* C30: for every rendering target added while the render thread runs passes,
\* the queued job calling the target's newOpenGLContextCreated is run before the
\* render thread first calls the target's renderOpenGL, in every interleaving;
\* every queued job runs once, in the order it was queued.
C30_CreatedBeforeRendered ==
    /\ glc.early = {}
    /\ glc.rendered \subseteq glc.created
    /\ JobsInOrder

=============================================================================
